---- MODULE Spec2Model ----
(***************************************************************************)
(* automation-hub: the e-mail ingestion loop (internal/services/email),    *)
(* the processor dispatch rule, the batch dispatch of the processor        *)
(* Manager and the code extraction of GenericEmailProcessor                *)
(* (internal/services/processor), the retry loop of the Telegram client    *)
(* (internal/services/telegram) and the torrent webhook handler            *)
(* (internal/handlers). Each path has a specification of its own; the      *)
(* variables of the other paths stay at their idle values.                 *)
(*                                                                         *)
(* Strings are sequences of bytes, one one-character string per byte, so   *)
(* that containment, lower-casing, decoding and pattern matching are       *)
(* computed, not assumed.                                                  *)
(***************************************************************************)
EXTENDS Integers, Sequences, FiniteSets, TLC

VARIABLES
    processors,   \* the ordered processor list handed to StartMonitoring / held by Manager
    seen,         \* mailbox: seen[m] is the \Seen flag of message m (sequence number m)
    cancelled,    \* ctx.Done() is closed
    tickerC,      \* ticker.C holds a pending tick (channel of capacity 1)
    loop,         \* StartMonitoring: "select", "inTick", "returned" ("unused" off the poll path)
    running,      \* number of checkEmails activations in flight
    pc,           \* position of the running checkEmails
    sess,         \* state of the tick's IMAP session
    searchIdx,    \* index of the next sender to search
    ids,          \* identifiers collected by searchUnreadEmails
    pending,      \* identifiers the Fetch producer has still to stream
    prod,         \* Fetch producer goroutine: "off", "running", "closed"
    messages,     \* contents of the messages channel
    done,         \* value Fetch's result put on the done channel: "empty", "ok", "err"
    cmds,         \* commands issued on the session in the current tick, with results
    disp,         \* dispatch records of the current tick, one per consumed message
    tickOutcome,  \* "none", "running", "aborted" (session failure) or "completed"
    cancelAtEntry, \* history: the context was already cancelled when the running tick was entered
    failedAt,     \* the session step whose failure aborted the tick, or "none"
    bemails,      \* ProcessEmailsConcurrently: the batch
    bpc,          \* ProcessEmailsConcurrently: "unused", "ready", "spawning", "waiting", "returned"
    bnext,        \* index of the next email to spawn a goroutine for
    wg,           \* Manager.wg counter
    workers,      \* state of each per-email goroutine: "none", "spawned", "finished"
    blog,         \* dispatch record of each finished goroutine
    mP, mM, mResult, mpc,  \* ShouldProcess and handlePostProcessing harnesses: processor, email, result, position
    tgChat,       \* SendMessage: the chatID argument
    tgpc,         \* SendMessage: "unused", "parse", "attempt", "returned"
    attempt,      \* SendMessage: the loop variable attempt
    lastErr,      \* SendMessage: lastErr, 0 (nil) while no attempt has failed
    tgSent,       \* results of the c.bot.Send calls made so far, in order
    tgSlept,      \* seconds of the time.Sleep calls made so far, in order
    tgResult,     \* what SendMessage returned, "none" before it returns
    gp,           \* GenericEmailProcessor under test: name, config, codePattern
    gText,        \* email.TextPlain of the message handed to Process
    gpc,          \* "unused", "new" (not constructed), "ready", "done", "panicked"
    gTried,       \* the patterns the last extraction ran, in order
    gCode,        \* the code the last extraction returned
    gBody,        \* the body the last extraction matched on, headers stripped or not
    gCalls,       \* the messages handed to telegram.SendMessage, in order
    gResult,      \* what Process returned, "none" before it returns
    mgr,          \* a Manager shared by concurrent ProcessEmailsConcurrently calls: wg and each call
    hook,         \* HandleTorrentComplete: configuration, request, response, SendMessage calls
    ep,           \* the GenericEmailProcessor of generic.go and its last Process call
    fp,           \* fetchAndProcessMessages step by step: producer, channel, consumer
    tk            \* the poll loop tick by tick: chat ids and the last dispatch of each message

pollVars  == <<seen, cancelled, tickerC, loop, running, pc, sess, searchIdx, ids,
               pending, prod, messages, done, cmds, disp, tickOutcome, failedAt, cancelAtEntry>>
batchVars == <<bemails, bpc, bnext, wg, workers, blog>>
matchVars == <<mP, mM, mResult, mpc>>
sendVars  == <<tgChat, tgpc, attempt, lastErr, tgSent, tgSlept, tgResult>>
genVars   == <<gp, gText, gpc, gTried, gCode, gBody, gCalls, gResult>>
extVars   == <<mgr, hook, ep, fp, tk>>
vars == <<processors, pollVars, batchVars, matchVars, sendVars, genVars, extVars>>

----------------------------------------------------------------------------
(* Bounds *)
NumMsgs  == 2   \* messages in the mailbox
MaxProcs == 2   \* processors in a configuration
MaxBatch == 2   \* emails in a batch
MaxSubjects == 2   \* subject filters of a processor in the ShouldProcess harness
NumSendErrs == 3   \* distinct errors c.bot.Send can report
NumCallers == 2    \* concurrent ProcessEmailsConcurrently calls on one Manager
MaxHooks == 2      \* webhook definitions of a configuration

----------------------------------------------------------------------------
(* Strings *)
s_a  == <<"a">>
s_b  == <<"b">>
s_ab == <<"a", "b">>
s_x  == <<"x">>
s_y  == <<"y">>
s_z  == <<"z">>
s_xy == <<"x", "y">>
perplexity == <<"p","e","r","p","l","e","x","i","t","y">>
cloudflare == <<"c","l","o","u","d","f","l","a","r","e">>
Cloudflare == <<"C","l","o","u","d","f","l","a","r","e">>
github     == <<"g","i","t","h","u","b">>

\* strings.Contains
Contains(s, sub) ==
    \E i \in 0..(Len(s) - Len(sub)) : SubSeq(s, i + 1, i + Len(sub)) = sub

UpperLetters ==
    <<"A", "B", "C", "D", "E", "F", "G", "H", "I", "J", "K", "L", "M", "N", "O", "P",
    "Q", "R", "S", "T", "U", "V", "W", "X", "Y", "Z">>
LowerLetters ==
    <<"a", "b", "c", "d", "e", "f", "g", "h", "i", "j", "k", "l", "m", "n", "o", "p",
    "q", "r", "s", "t", "u", "v", "w", "x", "y", "z">>

\* unicode.ToLower on an ASCII byte
LowerChar(c) ==
    IF \E i \in 1..Len(UpperLetters) : UpperLetters[i] = c
    THEN LowerLetters[CHOOSE i \in 1..Len(UpperLetters) : UpperLetters[i] = c]
    ELSE c

\* the printable ASCII bytes 0x20..0x7E, in order (the grave accent, which
\* a TLA+ string cannot hold, under its byte name)
Ascii ==
    <<" ", "!", "\"", "#", "$", "%", "&", "'", "(", ")", "*", "+", ",", "-", ".", "/",
    "0", "1", "2", "3", "4", "5", "6", "7", "8", "9", ":", ";", "<", "=", ">", "?",
    "@", "A", "B", "C", "D", "E", "F", "G", "H", "I", "J", "K", "L", "M", "N", "O",
    "P", "Q", "R", "S", "T", "U", "V", "W", "X", "Y", "Z", "[", "\\", "]", "^", "_",
    "x60", "a", "b", "c", "d", "e", "f", "g", "h", "i", "j", "k", "l", "m", "n", "o",
    "p", "q", "r", "s", "t", "u", "v", "w", "x", "y", "z", "{", "|", "}", "~">>
HexDigits == <<"0", "1", "2", "3", "4", "5", "6", "7", "8", "9", "A", "B", "C", "D", "E", "F">>

\* a byte that is no printable ASCII is written "x" and its two hex digits
ByteName(v) == "x" \o HexDigits[(v \div 16) + 1] \o HexDigits[(v % 16) + 1]

\* the byte of value v
ByteChar(v) ==
    IF v >= 32 /\ v <= 126 THEN Ascii[v - 31]
    ELSE IF v = 10 THEN "\n"
    ELSE IF v = 13 THEN "\r"
    ELSE IF v = 9 THEN "\t"
    ELSE ByteName(v)

\* the bytes of 0x80 and above
HighBytes == { ByteName(v) : v \in 128..255 }

\* utf8.RuneError (U+FFFD) as strings.Map writes it
RuneError == <<ByteName(239), ByteName(191), ByteName(189)>>

\* strings.ToLower: ASCII letters are lower-cased byte by byte; when the
\* string is not all ASCII it goes through strings.Map, which writes U+FFFD
\* (three bytes) for every byte that is no valid UTF-8. A byte of 0x80 or
\* above standing alone between ASCII bytes is never valid UTF-8; the strings
\* of this model hold no two such bytes in a row
RECURSIVE ToLower(_)
ToLower(s) ==
    IF s = <<>> THEN <<>>
    ELSE (IF Head(s) \in HighBytes THEN RuneError ELSE <<LowerChar(Head(s))>>)
             \o ToLower(Tail(s))

\* strings.Index: the 0-based index of the first occurrence of sub, or -1
Index(s, sub) ==
    IF Contains(s, sub)
    THEN CHOOSE i \in 0..(Len(s) - Len(sub)) :
            /\ SubSeq(s, i + 1, i + Len(sub)) = sub
            /\ \A j \in 0..(i - 1) : SubSeq(s, j + 1, j + Len(sub)) # sub
    ELSE -1

\* s[from:], 0-based
SliceFrom(s, from) == SubSeq(s, from + 1, Len(s))

----------------------------------------------------------------------------
(* Mailbox content and processor configurations *)
FromPool    == <<s_ab, s_b, s_a, s_ab>>
SubjectPool == <<s_x, s_y, s_z, s_xy>>
Msgs == 1..NumMsgs

\* parseMessage: the models.Email built from fetched message m
parseMessage(m) ==
    [ID |-> m,
     From    |-> FromPool[((m - 1) % Len(FromPool)) + 1],
     Subject |-> SubjectPool[((m - 1) % Len(SubjectPool)) + 1]]

\* NewGenericEmailProcessor (hasName: the value implements GetName)
Processor(name, hasName, from, subjects) ==
    [name |-> name, hasName |-> hasName, EmailFrom |-> from, EmailSubject |-> subjects]

ProcessorPool ==
    { Processor(perplexity, TRUE, s_a, <<s_x>>),
      Processor(Cloudflare, TRUE, s_a, <<s_z, s_x>>),
      Processor(github,     TRUE, s_b, <<s_y>>),
      Processor(<<>>,       FALSE, <<>>, <<s_y>>) }

RECURSIVE SeqsUpTo(_, _)
SeqsUpTo(S, n) ==
    IF n = 0 THEN { <<>> }
    ELSE LET shorter == SeqsUpTo(S, n - 1)
         IN shorter \cup { Append(q, x) : q \in shorter, x \in S }

Injective(q) == \A i, j \in 1..Len(q) : q[i] = q[j] => i = j

\* the configurations: NewProcessorManager builds one processor per service
ProcLists == { q \in SeqsUpTo(ProcessorPool, MaxProcs) : Len(q) >= 1 /\ Injective(q) }

\* a result of SendMessage: kind "nil", "invalidChatID" (parse error, wrapped)
\* or "exhausted" (the error after maxRetries attempts, wrapping error wraps)
SendResult(kind, wraps) == [kind |-> kind, wraps |-> wraps]
NoResult == SendResult("none", 0)

\* the notifier and the processor under test are idle off their own paths
SendUnused ==
    /\ tgChat = <<>>
    /\ tgpc = "unused"
    /\ attempt = 0
    /\ lastErr = 0
    /\ tgSent = <<>>
    /\ tgSlept = <<>>
    /\ tgResult = NoResult

GenUnused ==
    /\ gp = <<>>
    /\ gText = <<>>
    /\ gpc = "unused"
    /\ gTried = <<>>
    /\ gCode = <<>>
    /\ gBody = <<>>
    /\ gCalls = <<>>
    /\ gResult = "none"

\* the shared Manager, the webhook handler and the processor of generic.go
\* are idle off their own paths
ExtUnused ==
    /\ mgr = <<>>
    /\ hook = <<>>
    /\ ep = <<>>
    /\ fp = <<>>
    /\ tk = <<>>

----------------------------------------------------------------------------
(* Processor *)
RECURSIVE AnySubject(_, _, _)
AnySubject(subjects, subject, i) ==
    IF i > Len(subjects) THEN FALSE
    ELSE IF Contains(subject, subjects[i]) THEN TRUE
    ELSE AnySubject(subjects, subject, i + 1)

\* mutant: the sender test and the subject test are joined by "or"
ShouldProcessEither(p, email) ==
    IF Contains(email.From, p.EmailFrom) THEN TRUE
    ELSE AnySubject(p.EmailSubject, email.Subject, 1)

ShouldProcess(p, email) ==
    IF ~Contains(email.From, p.EmailFrom) THEN FALSE
    ELSE AnySubject(p.EmailSubject, email.Subject, 1)

GetSender(p) == p.EmailFrom

----------------------------------------------------------------------------
(* Ingestion loop: StartMonitoring and checkEmails *)
Cmd(c, ok, arg) == [cmd |-> c, ok |-> ok, arg |-> arg]

RECURSIVE SendersFrom(_, _)
SendersFrom(procs, i) ==
    IF i > Len(procs) THEN <<>>
    ELSE IF GetSender(procs[i]) # <<>>
         THEN <<GetSender(procs[i])>> \o SendersFrom(procs, i + 1)
         ELSE SendersFrom(procs, i + 1)

\* checkEmails: the senders handed to searchUnreadEmails
Senders == SendersFrom(processors, 1)

\* the server's answer to SEARCH UNSEEN
SearchUnseen == { m \in Msgs : ~seen[m] }

\* the server's answer to SEARCH UNSEEN HEADER From sender
SearchUnseenFrom(sender) ==
    { m \in Msgs : ~seen[m] /\ Contains(parseMessage(m).From, sender) }

\* mutant: the body is fetched as "BODY[TEXT]", which sets \Seen
NonPeekSection == FALSE

\* "BODY.PEEK[TEXT]": fetching the body leaves \Seen alone
PeekSection == TRUE

Min(S) == CHOOSE x \in S : \A y \in S : x <= y

PollFrame == UNCHANGED <<processors, batchVars, matchVars, sendVars, genVars, extVars>>
\* the entry record lasts as long as the tick it describes
KeepEntry == cancelAtEntry' = IF pc' = "none" THEN FALSE ELSE cancelAtEntry

\* the ticker delivers a tick unless one is already pending in ticker.C
TimerFire ==
    /\ loop \in {"select", "inTick"}
    /\ ~tickerC
    /\ tickerC' = TRUE
    /\ UNCHANGED <<seen, cancelled, loop, running, pc, sess, searchIdx, ids, pending,
                   prod, messages, done, cmds, disp, tickOutcome, failedAt>>
    /\ PollFrame /\ KeepEntry

\* the caller cancels the context
Cancel ==
    /\ ~cancelled
    /\ cancelled' = TRUE
    /\ UNCHANGED <<seen, tickerC, loop, running, pc, sess, searchIdx, ids, pending,
                   prod, messages, done, cmds, disp, tickOutcome, failedAt>>
    /\ PollFrame /\ KeepEntry

\* mutant: "case <-ctx.Done(): break" leaves the select only, not the loop
SelectDoneBreaks ==
    /\ loop = "select"
    /\ cancelled
    /\ UNCHANGED <<seen, cancelled, tickerC, loop, running, pc, sess, searchIdx, ids,
                   pending, prod, messages, done, cmds, disp, tickOutcome, failedAt>>
    /\ PollFrame /\ KeepEntry

\* select: case <-ctx.Done()
SelectDone ==
    /\ loop = "select"
    /\ cancelled
    /\ loop' = "returned"
    /\ UNCHANGED <<seen, cancelled, tickerC, running, pc, sess, searchIdx, ids, pending,
                   prod, messages, done, cmds, disp, tickOutcome, failedAt>>
    /\ PollFrame /\ KeepEntry

\* mutant: the tick is started with "go c.checkEmails(...)"
LoopWhileTickAsync == "select"

\* c.checkEmails(processors...) is a plain call: the loop waits for it
LoopWhileTick == "inTick"

\* select: case <-ticker.C, entering checkEmails
SelectTick ==
    /\ loop = "select"
    /\ tickerC
    /\ tickerC' = FALSE
    /\ loop' = LoopWhileTick
    /\ running' = running + 1
    /\ pc' = "connect"
    /\ sess' = "none"
    /\ searchIdx' = 1
    /\ ids' = {}
    /\ pending' = {}
    /\ prod' = "off"
    /\ messages' = <<>>
    /\ done' = "empty"
    /\ cmds' = <<>>
    /\ disp' = <<>>
    /\ tickOutcome' = "running"
    /\ failedAt' = "none"
    /\ cancelAtEntry' = cancelled
    /\ UNCHANGED <<seen, cancelled>>
    /\ PollFrame

\* mutant: a tick aborted by a session failure ends the monitoring loop
ReturnStopsOnAbort(outcome, failed, log, newSess) ==
    /\ pc' = "none"
    /\ loop' = IF outcome = "aborted" THEN "returned" ELSE "select"
    /\ running' = running - 1
    /\ tickOutcome' = outcome
    /\ failedAt' = failed
    /\ cmds' = log
    /\ sess' = newSess

\* checkEmails returns to the select of StartMonitoring
Return(outcome, failed, log, newSess) ==
    /\ pc' = "none"
    /\ loop' = "select"
    /\ running' = running - 1
    /\ tickOutcome' = outcome
    /\ failedAt' = failed
    /\ cmds' = log
    /\ sess' = newSess

\* mutant: the deferred logout runs after a logout was already sent
LogoutTwice(log) ==
    Append(Append(log, Cmd("LOGOUT", TRUE, 0)), Cmd("LOGOUT", TRUE, 0))

\* IMAPClient.logout, deferred by checkEmails
Logout(log) == Append(log, Cmd("LOGOUT", TRUE, 0))

\* connectAndLogin: client.DialTLS
Dial ==
    /\ pc = "connect"
    /\ \E ok \in BOOLEAN :
         IF ok
         THEN /\ cmds' = Append(cmds, Cmd("DIAL", TRUE, 0))
              /\ sess' = "connected"
              /\ pc' = "login"
              /\ UNCHANGED <<loop, running, tickOutcome, failedAt>>
         ELSE Return("aborted", "connect", Append(cmds, Cmd("DIAL", FALSE, 0)), "none")
    /\ UNCHANGED <<seen, cancelled, tickerC, searchIdx, ids, pending, prod, messages,
                   done, disp>>
    /\ PollFrame /\ KeepEntry

\* mutant: a successful login goes straight to the search, INBOX is never selected
LoginSkipsSelect ==
    /\ pc = "login"
    /\ \E ok \in BOOLEAN :
         IF ok
         THEN /\ cmds' = Append(cmds, Cmd("LOGIN", TRUE, 0))
              /\ sess' = "authenticated"
              /\ pc' = "search"
              /\ UNCHANGED <<loop, running, tickOutcome, failedAt>>
         ELSE Return("aborted", "login",
                     Logout(Append(cmds, Cmd("LOGIN", FALSE, 0))), "loggedout")
    /\ UNCHANGED <<seen, cancelled, tickerC, searchIdx, ids, pending, prod, messages,
                   done, disp>>
    /\ PollFrame /\ KeepEntry

\* mutant: a failed login returns without logging out
LoginNoLogout ==
    /\ pc = "login"
    /\ \E ok \in BOOLEAN :
         IF ok
         THEN /\ cmds' = Append(cmds, Cmd("LOGIN", TRUE, 0))
              /\ sess' = "authenticated"
              /\ pc' = "select"
              /\ UNCHANGED <<loop, running, tickOutcome, failedAt>>
         ELSE Return("aborted", "login", Append(cmds, Cmd("LOGIN", FALSE, 0)), "connected")
    /\ UNCHANGED <<seen, cancelled, tickerC, searchIdx, ids, pending, prod, messages,
                   done, disp>>
    /\ PollFrame /\ KeepEntry

\* connectAndLogin: imapClient.Login, with the logout on failure
Login ==
    /\ pc = "login"
    /\ \E ok \in BOOLEAN :
         IF ok
         THEN /\ cmds' = Append(cmds, Cmd("LOGIN", TRUE, 0))
              /\ sess' = "authenticated"
              /\ pc' = "select"
              /\ UNCHANGED <<loop, running, tickOutcome, failedAt>>
         ELSE Return("aborted", "login",
                     Logout(Append(cmds, Cmd("LOGIN", FALSE, 0))), "loggedout")
    /\ UNCHANGED <<seen, cancelled, tickerC, searchIdx, ids, pending, prod, messages,
                   done, disp>>
    /\ PollFrame /\ KeepEntry

\* connectAndLogin: imapClient.Select("INBOX"), with the logout on failure
SelectInbox ==
    /\ pc = "select"
    /\ \E ok \in BOOLEAN :
         IF ok
         THEN /\ cmds' = Append(cmds, Cmd("SELECT", TRUE, 0))
              /\ sess' = "selected"
              /\ pc' = "search"
              /\ UNCHANGED <<loop, running, tickOutcome, failedAt>>
         ELSE Return("aborted", "select",
                     Logout(Append(cmds, Cmd("SELECT", FALSE, 0))), "loggedout")
    /\ UNCHANGED <<seen, cancelled, tickerC, searchIdx, ids, pending, prod, messages,
                   done, disp>>
    /\ PollFrame /\ KeepEntry

\* checkEmails after searchUnreadEmails returned found without error:
\* return when nothing was found, else fetchAndProcessMessages starts the producer
AfterSearch(found, log) ==
    IF found = {}
    THEN /\ Return("completed", "none", Logout(log), "loggedout")
         /\ UNCHANGED <<pending, prod>>
    ELSE /\ cmds' = Append(log, Cmd("FETCH", TRUE, 0))
         /\ pending' = found
         /\ prod' = "running"
         /\ pc' = "consume"
         /\ UNCHANGED <<loop, running, tickOutcome, failedAt, sess>>

\* searchUnreadEmails with no senders: one unfiltered search, its error returned
SearchAll ==
    /\ pc = "search"
    /\ Len(Senders) = 0
    /\ \E ok \in BOOLEAN :
         IF ok
         THEN /\ ids' = SearchUnseen
              /\ AfterSearch(SearchUnseen, Append(cmds, Cmd("SEARCH", TRUE, 0)))
         ELSE /\ Return("aborted", "search",
                        Logout(Append(cmds, Cmd("SEARCH", FALSE, 0))), "loggedout")
              /\ UNCHANGED <<ids, pending, prod>>
    /\ UNCHANGED <<seen, cancelled, tickerC, searchIdx, messages, done, disp>>
    /\ PollFrame /\ KeepEntry

\* mutant: each sender's result replaces what the earlier senders found
AddIDsLast(uniqueIDs, found) == found

\* searchUnreadEmails: "for _, id := range ids { uniqueIDs[id] = struct{}{} }"
AddIDs(uniqueIDs, found) == uniqueIDs \cup found

\* searchUnreadEmails with senders: one search per sender; a failed search is
\* logged and skipped (continue); after the last one the union is returned
SearchSender ==
    /\ pc = "search"
    /\ searchIdx <= Len(Senders)
    /\ \E ok \in BOOLEAN :
         LET found == IF ok THEN AddIDs(ids, SearchUnseenFrom(Senders[searchIdx])) ELSE ids
             log   == Append(cmds, Cmd("SEARCH", ok, searchIdx))
         IN /\ ids' = found
            /\ searchIdx' = searchIdx + 1
            /\ IF searchIdx < Len(Senders)
               THEN /\ cmds' = log
                    /\ UNCHANGED <<loop, running, pc, sess, pending, prod,
                                   tickOutcome, failedAt>>
               ELSE AfterSearch(found, log)
    /\ UNCHANGED <<seen, cancelled, tickerC, messages, done, disp>>
    /\ PollFrame /\ KeepEntry

\* the Fetch producer streams the next message into the messages channel
FetchDeliver ==
    /\ prod = "running"
    /\ pending # {}
    /\ LET m == Min(pending)
       IN /\ messages' = Append(messages, m)
          /\ pending' = pending \ {m}
          /\ seen' = IF PeekSection THEN seen ELSE [seen EXCEPT ![m] = TRUE]
    /\ UNCHANGED <<cancelled, tickerC, loop, running, pc, sess, searchIdx, ids, prod,
                   done, cmds, disp, tickOutcome, failedAt>>
    /\ PollFrame /\ KeepEntry

\* Fetch returns: it closes the messages channel and its result goes to done.
\* It returns nil only after every requested message was streamed; it can fail
\* at any point
FetchReturn ==
    /\ prod = "running"
    /\ \E ok \in BOOLEAN :
         /\ ok => pending = {}
         /\ done' = IF ok THEN "ok" ELSE "err"
    /\ prod' = "closed"
    /\ pending' = {}
    /\ UNCHANGED <<seen, cancelled, tickerC, loop, running, pc, sess, searchIdx, ids,
                   messages, cmds, disp, tickOutcome, failedAt>>
    /\ PollFrame /\ KeepEntry

\* mutant: after a failed Process the loop goes on to the next processor
RECURSIVE processMessageNoReturn(_, _, _, _)
processMessageNoReturn(procs, email, i, sendOk) ==
    IF i > Len(procs)
    THEN [consulted |-> <<>>, invoked |-> <<>>, handled |-> 0]
    ELSE IF ShouldProcess(procs[i], email) /\ sendOk
         THEN [consulted |-> <<i>>, invoked |-> <<i>>, handled |-> i]
         ELSE LET r == processMessageNoReturn(procs, email, i + 1, sendOk)
              IN [consulted |-> <<i>> \o r.consulted,
                  invoked |-> IF ShouldProcess(procs[i], email)
                              THEN <<i>> \o r.invoked ELSE r.invoked,
                  handled |-> r.handled]

\* mutant: a processor whose Process failed is handed to handlePostProcessing
RECURSIVE processMessageMarksFailed(_, _, _, _)
processMessageMarksFailed(procs, email, i, sendOk) ==
    IF i > Len(procs)
    THEN [consulted |-> <<>>, invoked |-> <<>>, handled |-> 0]
    ELSE IF ShouldProcess(procs[i], email)
         THEN [consulted |-> <<i>>, invoked |-> <<i>>, handled |-> i]
         ELSE LET r == processMessageMarksFailed(procs, email, i + 1, sendOk)
              IN [consulted |-> <<i>> \o r.consulted, invoked |-> r.invoked,
                  handled |-> r.handled]

\* processMessage: the loop over the processors from index i on.
\* sendOk is what Process (the notifier) reports.
\* consulted: the processors whose ShouldProcess was called, in order;
\* invoked: those whose Process was called; handled: the one handed to
\* handlePostProcessing, 0 when none
RECURSIVE processMessage(_, _, _, _)
processMessage(procs, email, i, sendOk) ==
    IF i > Len(procs)
    THEN [consulted |-> <<>>, invoked |-> <<>>, handled |-> 0]
    ELSE IF ShouldProcess(procs[i], email)
         THEN [consulted |-> <<i>>, invoked |-> <<i>>,
               handled |-> IF sendOk THEN i ELSE 0]
         ELSE LET r == processMessage(procs, email, i + 1, sendOk)
              IN [consulted |-> <<i>> \o r.consulted, invoked |-> r.invoked,
                  handled |-> r.handled]

\* mutant: every processor that exposes a name is marked read
handlePostProcessingAnyName(p) == p.hasName

\* mutant: the name is compared as it is configured
handlePostProcessingExactCase(p) ==
    IF ~p.hasName THEN FALSE
    ELSE p.name = perplexity \/ p.name = cloudflare

\* mutant: github is on the allowlist as well
handlePostProcessingGithub(p) ==
    p.hasName /\ ToLower(p.name) \in {perplexity, cloudflare, github}

\* handlePostProcessing: whether markAsRead is called for processor p
handlePostProcessing(p) ==
    IF ~p.hasName THEN FALSE
    ELSE ToLower(p.name) = perplexity \/ ToLower(p.name) = cloudflare

\* mutant: the store sets \Seen on every message of the mailbox
markAsReadAll(flags, seqNum) == [m \in Msgs |-> TRUE]

\* markAsRead: a successful STORE +FLAGS (\Seen) on the set {seqNum}
markAsRead(flags, seqNum) == [flags EXCEPT ![seqNum] = TRUE]

\* the consumer takes the next message from the channel: processMessage,
\* handlePostProcessing and markAsRead (one STORE +FLAGS \Seen on its SeqNum)
Consume ==
    /\ pc = "consume"
    /\ messages # <<>>
    /\ LET m == Head(messages)
       IN \E sendOk \in BOOLEAN, storeOk \in BOOLEAN :
            LET r    == processMessage(processors, parseMessage(m), 1, sendOk)
                mark == IF r.handled = 0 THEN FALSE
                        ELSE handlePostProcessing(processors[r.handled])
            IN /\ disp' = Append(disp,
                     [msg |-> m, consulted |-> r.consulted, invoked |-> r.invoked,
                      ok |-> r.handled # 0, stored |-> mark,
                      fetching |-> prod = "running"])
               /\ cmds' = IF mark THEN Append(cmds, Cmd("STORE", storeOk, m)) ELSE cmds
               /\ seen' = IF mark /\ storeOk THEN markAsRead(seen, m) ELSE seen
    /\ messages' = Tail(messages)
    /\ UNCHANGED <<cancelled, tickerC, loop, running, pc, sess, searchIdx, ids, pending,
                   prod, done, tickOutcome, failedAt>>
    /\ PollFrame /\ KeepEntry

\* the messages channel is closed and drained: the consumer reads done,
\* fetchAndProcessMessages and checkEmails return, the deferred logout runs
Finish ==
    /\ pc = "consume"
    /\ messages = <<>>
    /\ prod = "closed"
    /\ IF done = "err"
       THEN Return("aborted", "fetch", Logout(cmds), "loggedout")
       ELSE Return("completed", "none", Logout(cmds), "loggedout")
    /\ UNCHANGED <<seen, cancelled, tickerC, searchIdx, ids, pending, prod, messages,
                   done, disp>>
    /\ PollFrame /\ KeepEntry

InitPoll ==
    /\ processors \in ProcLists
    /\ seen = [m \in Msgs |-> FALSE]
    /\ cancelled = FALSE
    /\ tickerC = FALSE
    /\ loop = "select"
    /\ running = 0
    /\ pc = "none"
    /\ sess = "none"
    /\ searchIdx = 1
    /\ ids = {}
    /\ pending = {}
    /\ prod = "off"
    /\ messages = <<>>
    /\ done = "empty"
    /\ cmds = <<>>
    /\ disp = <<>>
    /\ tickOutcome = "none"
    /\ failedAt = "none"
    /\ cancelAtEntry = FALSE
    /\ bemails = <<>>
    /\ bpc = "unused"
    /\ bnext = 1
    /\ wg = 0
    /\ workers = <<>>
    /\ blog = <<>>
    /\ mP = Processor(<<>>, FALSE, <<>>, <<>>)
    /\ mM = parseMessage(1)
    /\ mResult = FALSE
    /\ mpc = "unused"
    /\ SendUnused
    /\ GenUnused
    /\ ExtUnused

NextPoll ==
    \/ TimerFire
    \/ Cancel
    \/ SelectDone
    \/ SelectTick
    \/ Dial
    \/ Login
    \/ SelectInbox
    \/ SearchAll
    \/ SearchSender
    \/ FetchDeliver
    \/ FetchReturn
    \/ Consume
    \/ Finish

----------------------------------------------------------------------------
(* Properties of the poll path *)
Allowlist == {perplexity, cloudflare}

OnAllowlist(p) == p.hasName /\ ToLower(p.name) \in Allowlist

Issued(c) == { i \in 1..Len(cmds) : cmds[i].cmd = c }

StoresFor(m) == { i \in Issued("STORE") : cmds[i].arg = m }

Failed(c) == { i \in Issued(c) : ~cmds[i].ok }

NoMatch(m) == \A i \in 1..Len(processors) : ~ShouldProcess(processors[i], parseMessage(m))

\* C1: in the poll path a mark-as-read (STORE +FLAGS \Seen) is issued for a
\* dispatched message iff Process succeeded and the processor is on the
\* allowlist {perplexity, cloudflare}; otherwise nothing is stored and the
\* message is still unread
C1_MarkReadIffSuccessAndAllowlisted ==
    /\ \A k \in 1..Len(disp) :
         LET r == disp[k]
         IN /\ StoresFor(r.msg) # {} <=>
                 /\ r.invoked # <<>>
                 /\ r.ok
                 /\ OnAllowlist(processors[r.invoked[Len(r.invoked)]])
            /\ StoresFor(r.msg) = {} => ~seen[r.msg]
    /\ \A i \in Issued("STORE") : \E k \in 1..Len(disp) : disp[k].msg = cmds[i].arg

\* C1 witness: in one tick an allowlisted processor succeeded and its message
\* was stored, and a processor off the allowlist succeeded and its was not
C1_Witness ==
    /\ \E k \in 1..Len(disp) : disp[k].ok /\ StoresFor(disp[k].msg) # {}
    /\ \E k \in 1..Len(disp) :
         /\ disp[k].ok
         /\ processors[disp[k].invoked[1]].hasName
         /\ StoresFor(disp[k].msg) = {}

\* C3: a fetched message that no processor's ShouldProcess accepts is left
\* untouched: no Process call, no notification, no STORE, and it is unread
\* after the tick as it was before
C3_UnmatchedUntouched ==
    \A k \in 1..Len(disp) :
        NoMatch(disp[k].msg) =>
            /\ disp[k].invoked = <<>>
            /\ ~disp[k].ok
            /\ StoresFor(disp[k].msg) = {}
            /\ ~seen[disp[k].msg]

\* C3 witness: a tick completed in which an unmatched message was consumed
C3_Witness ==
    /\ tickOutcome = "completed"
    /\ \E k \in 1..Len(disp) : NoMatch(disp[k].msg) /\ Len(disp[k].consulted) = MaxProcs

\* C5: ticks never overlap: at most one checkEmails runs, it runs only while
\* the loop is inside the call, and whenever the loop is at its select the
\* previous tick has returned with its session closed
C5_TicksNeverOverlap ==
    /\ running <= 1
    /\ running = 1 <=> loop = "inTick"
    /\ loop # "inTick" =>
         /\ pc = "none"
         /\ sess \in {"none", "loggedout"}
         /\ prod # "running"

\* C5 witness: the timer fired again while a tick is still consuming messages
C5_Witness == running = 1 /\ pc = "consume" /\ tickerC /\ disp # <<>>

\* C6: the session's commands follow DIAL, LOGIN, SELECT, then searches,
\* fetch and stores, then LOGOUT: no search, fetch or store before INBOX was
\* selected, and nothing after the logout
C6_SessionOrder ==
    \A i \in 1..Len(cmds) :
        LET before == { j \in 1..Len(cmds) : j < i }
        IN /\ cmds[i].cmd \in {"SEARCH", "FETCH", "STORE"} =>
                /\ \E j \in before : cmds[j] = Cmd("SELECT", TRUE, 0)
                /\ \A j \in before : cmds[j].cmd # "LOGOUT"
           /\ cmds[i].cmd = "SELECT" => \E j \in before : cmds[j] = Cmd("LOGIN", TRUE, 0)
           /\ cmds[i].cmd = "LOGIN" => \E j \in before : cmds[j] = Cmd("DIAL", TRUE, 0)
           /\ cmds[i].cmd = "LOGOUT" => i = Len(cmds)
           /\ cmds[i].cmd = "DIAL" => i = 1

\* C6 witness: a tick that searched, fetched, stored and logged out
C6_Witness ==
    /\ Issued("SEARCH") # {}
    /\ Issued("FETCH") # {}
    /\ Issued("STORE") # {}
    /\ Issued("LOGOUT") # {}

\* C7: when connect, login or INBOX selection fails the tick is aborted: no
\* search, fetch, Process or store in that tick, and a logout is attempted
\* exactly when the connection had been established (login or select failed)
C7_EarlyAbort ==
    \A i \in Failed("DIAL") \cup Failed("LOGIN") \cup Failed("SELECT") :
        /\ Issued("SEARCH") \cup Issued("FETCH") \cup Issued("STORE") = {}
        /\ disp = <<>>
        /\ pc = "none"
        /\ tickOutcome = "aborted"
        /\ IF cmds[i].cmd = "DIAL"
           THEN Len(cmds) = i /\ Issued("LOGOUT") = {}
           ELSE Len(cmds) = i + 1 /\ cmds[i + 1].cmd = "LOGOUT"

\* C7 witness: a tick aborted by a failed login, logged out
C7_Witness == failedAt = "login" /\ Issued("LOGOUT") # {}

\* C8 (as claimed): a failed search, also one of the per-sender searches, is
\* tick-fatal: no fetch is issued and nothing is notified in that tick
C8_SearchFailureIsTickFatal ==
    Failed("SEARCH") # {} =>
        /\ Issued("FETCH") = {}
        /\ \A k \in 1..Len(disp) : ~disp[k].ok

\* C9 (as claimed): when Fetch returns an error no Process is invoked and
\* nothing is notified for any message of the tick
C9_FetchFailureNoProcess ==
    done = "err" => \A k \in 1..Len(disp) : disp[k].invoked = <<>>

----------------------------------------------------------------------------
(* Manager.ProcessEmailsConcurrently and processEmailAsync *)
PollUnused ==
    /\ seen = [m \in Msgs |-> FALSE]
    /\ tickerC = FALSE
    /\ loop = "unused"
    /\ running = 0
    /\ pc = "none"
    /\ sess = "none"
    /\ searchIdx = 1
    /\ ids = {}
    /\ pending = {}
    /\ prod = "off"
    /\ messages = <<>>
    /\ done = "empty"
    /\ cmds = <<>>
    /\ disp = <<>>
    /\ tickOutcome = "none"
    /\ failedAt = "none"
    /\ cancelAtEntry = FALSE

MatchUnused ==
    /\ mP = Processor(<<>>, FALSE, <<>>, <<>>)
    /\ mM = parseMessage(1)
    /\ mResult = FALSE
    /\ mpc = "unused"

NoRecord == [state |-> "none", consulted |-> <<>>, invoked |-> <<>>, ok |-> FALSE]

BatchFrame ==
    UNCHANGED <<processors, seen, tickerC, loop, running, pc, sess, searchIdx, ids,
                pending, prod, messages, done, cmds, disp, tickOutcome, failedAt, cancelAtEntry,
                matchVars, sendVars, genVars, extVars>>

\* ProcessEmailsConcurrently: entry, returning at once on an empty batch
BatchCall ==
    /\ bpc = "ready"
    /\ bpc' = IF Len(bemails) = 0 THEN "returned" ELSE "spawning"
    /\ UNCHANGED <<cancelled, bemails, bnext, wg, workers, blog>>
    /\ BatchFrame

\* ProcessEmailsConcurrently: pm.wg.Add(1); go pm.processEmailAsync(ctx, email)
BatchSpawn ==
    /\ bpc = "spawning"
    /\ wg' = wg + 1
    /\ workers' = [workers EXCEPT ![bnext] = "spawned"]
    /\ bnext' = bnext + 1
    /\ bpc' = IF bnext = Len(bemails) THEN "waiting" ELSE "spawning"
    /\ UNCHANGED <<cancelled, bemails, blog>>
    /\ BatchFrame

\* processEmailAsync: the loop over pm.processors from index i on
RECURSIVE processEmailAsync(_, _, _, _)
processEmailAsync(procs, email, i, sendOk) ==
    IF i > Len(procs)
    THEN [state |-> "ignored", consulted |-> <<>>, invoked |-> <<>>, ok |-> FALSE]
    ELSE IF ShouldProcess(procs[i], email)
         THEN [state |-> "handled", consulted |-> <<i>>, invoked |-> <<i>>, ok |-> sendOk]
         ELSE LET r == processEmailAsync(procs, email, i + 1, sendOk)
              IN [r EXCEPT !.consulted = <<i>> \o r.consulted]

\* the goroutine of email i: the ctx.Done() check, the dispatch, the deferred wg.Done()
BatchWorker(i) ==
    /\ workers[i] = "spawned"
    /\ \E sendOk \in BOOLEAN :
         blog' = [blog EXCEPT ![i] =
                    IF cancelled
                    THEN [NoRecord EXCEPT !.state = "skipped"]
                    ELSE processEmailAsync(processors, parseMessage(bemails[i]), 1, sendOk)]
    /\ workers' = [workers EXCEPT ![i] = "finished"]
    /\ wg' = wg - 1
    /\ UNCHANGED <<cancelled, bemails, bpc, bnext>>
    /\ BatchFrame

\* ProcessEmailsConcurrently: pm.wg.Wait() returns
BatchWait ==
    /\ bpc = "waiting"
    /\ wg = 0
    /\ bpc' = "returned"
    /\ UNCHANGED <<cancelled, bemails, bnext, wg, workers, blog>>
    /\ BatchFrame

InitBatch ==
    /\ processors \in ProcLists
    /\ cancelled = FALSE
    /\ PollUnused
    /\ bemails \in SeqsUpTo(Msgs, MaxBatch)
    /\ bpc = "ready"
    /\ bnext = 1
    /\ wg = 0
    /\ workers = [i \in 1..Len(bemails) |-> "none"]
    /\ blog = [i \in 1..Len(bemails) |-> NoRecord]
    /\ MatchUnused
    /\ SendUnused
    /\ GenUnused
    /\ ExtUnused

NextBatch ==
    \/ Cancel
    \/ BatchCall
    \/ BatchSpawn
    \/ \E i \in 1..Len(bemails) : BatchWorker(i)
    \/ BatchWait

SpecBatch == InitBatch /\ [][NextBatch]_vars

\* either entry point: the poll loop or the batch call
InitDispatch == InitPoll \/ InitBatch
NextDispatch == NextPoll \/ NextBatch
SpecDispatch == InitDispatch /\ [][NextDispatch]_vars

----------------------------------------------------------------------------
(* ShouldProcess on its own *)
PatternStrings == { <<>>, <<"a">>, <<"A">>, <<"a", "b">> }
MessageStrings == { <<>>, <<"a">>, <<"A">>, <<"b">>, <<"a", "b">>, <<"b", "a">>,
                    <<"A", "b">>, <<"a", "a", "b">> }

InitMatch ==
    /\ processors = <<>>
    /\ cancelled = FALSE
    /\ PollUnused
    /\ bemails = <<>>
    /\ bpc = "unused"
    /\ bnext = 1
    /\ wg = 0
    /\ workers = <<>>
    /\ blog = <<>>
    /\ mP \in { Processor(github, TRUE, f, subjects) :
                  f \in PatternStrings, subjects \in SeqsUpTo(PatternStrings, MaxSubjects) }
    /\ mM \in { [ID |-> 1, From |-> f, Subject |-> subj] :
                  f \in MessageStrings, subj \in MessageStrings }
    /\ mResult = FALSE
    /\ mpc = "ready"
    /\ SendUnused
    /\ GenUnused
    /\ ExtUnused

\* a call of ShouldProcess
CallShouldProcess ==
    /\ mpc = "ready"
    /\ mResult' = ShouldProcess(mP, mM)
    /\ mpc' = "done"
    /\ UNCHANGED <<processors, pollVars, batchVars, mP, mM, sendVars, genVars, extVars>>

NextMatch == CallShouldProcess

SpecMatch == InitMatch /\ [][NextMatch]_vars

\* case-sensitive substring containment: sub is a contiguous slice of s
Within(s, sub) == \E i \in 1..(Len(s) + 1), j \in 0..Len(s) : SubSeq(s, i, j) = sub

\* C4: ShouldProcess(P, M) is true iff M's sender contains P's sender
\* substring and M's subject contains at least one of P's subject
\* substrings (case-sensitive); with no subject filters nothing matches
C4_ShouldProcessIff ==
    mpc = "done" =>
        /\ mResult <=>
             /\ Within(mM.From, mP.EmailFrom)
             /\ \E i \in 1..Len(mP.EmailSubject) : Within(mM.Subject, mP.EmailSubject[i])
        /\ mP.EmailSubject = <<>> => ~mResult

\* C4 witness: a message accepted through the second subject filter only, by a
\* processor with a non-empty sender filter
C4_Witness ==
    /\ mpc = "done"
    /\ mResult
    /\ Len(mP.EmailSubject) = 2
    /\ ~Within(mM.Subject, mP.EmailSubject[1])
    /\ mP.EmailFrom # <<>>

\* the dispatch records of both paths, each with the email it is about
DispatchRecords ==
    { [email |-> parseMessage(disp[k].msg), consulted |-> disp[k].consulted,
       invoked |-> disp[k].invoked] : k \in 1..Len(disp) }
    \cup
    { [email |-> parseMessage(bemails[i]), consulted |-> blog[i].consulted,
       invoked |-> blog[i].invoked] :
         i \in { j \in 1..Len(bemails) : blog[j].state \in {"ignored", "handled"} } }

Matching(email) == { i \in 1..Len(processors) : ShouldProcess(processors[i], email) }

\* C2: dispatch is first-match in both paths: Process is invoked on at most
\* one processor, the earliest in configuration order whose ShouldProcess is
\* true, also when its Process fails; the processors after it are neither
\* consulted nor invoked
C2_FirstMatchDispatch ==
    \A r \in DispatchRecords :
        IF Matching(r.email) = {}
        THEN /\ r.invoked = <<>>
             /\ r.consulted = [i \in 1..Len(processors) |-> i]
        ELSE LET first == Min(Matching(r.email))
             IN /\ r.invoked = <<first>>
                /\ r.consulted = [i \in 1..first |-> i]

\* C2 witness: in the batch path the first of two matching processors was
\* invoked and failed
C2_Witness ==
    \E i \in 1..Len(bemails) :
        /\ blog[i].state = "handled"
        /\ ~blog[i].ok
        /\ Cardinality(Matching(parseMessage(bemails[i]))) = 2

\* a step of the running checkEmails or of its Fetch producer
TickStep ==
    \/ Dial
    \/ Login
    \/ SelectInbox
    \/ SearchAll
    \/ SearchSender
    \/ FetchDeliver
    \/ FetchReturn
    \/ Consume
    \/ Finish

Init == InitPoll
Next == NextPoll
Spec == Init /\ [][Next]_vars

\* The ticker keeps firing, a ready select case is taken, and every blocking
\* call of a tick (dial, login, select, search, fetch, store, logout) returns
Fairness ==
    /\ WF_vars(TimerFire)
    /\ WF_vars(SelectTick)
    /\ WF_vars(TickStep)

FairSpec == Spec /\ Fairness

C11_NoTickOnceCancelled ==
    [][(loop = "select" /\ pc = "none" /\ pc' = "connect") => ~cancelled]_vars

\* the work a tick has done on its session: searches, fetches and flag-stores
\* issued, and messages handed to the processors
SessionWork ==
    Cardinality(Issued("SEARCH") \cup Issued("FETCH") \cup Issued("STORE")) + Len(disp)

\* C12: a cancellation raised while a tick is running aborts the session:
\* once the context is cancelled in mid-tick, that tick makes no further
\* search, fetch, Process or flag step
C12_CancelAbortsRunningTick ==
    [][(pc # "none" /\ cancelled /\ ~cancelAtEntry) => SessionWork' = SessionWork]_vars

\* whether message m was unread when the current tick began: only the tick's
\* own successful flag-stores have changed \Seen since
UnreadAtTickStart(m) ==
    ~seen[m] \/ \E i \in Issued("STORE") : cmds[i].arg = m /\ cmds[i].ok

\* what the i-th search command of the tick was answered with
SearchResult(i) ==
    { m \in Msgs : UnreadAtTickStart(m) /\ Contains(parseMessage(m).From, Senders[cmds[i].arg]) }

Answered == { i \in Issued("SEARCH") : cmds[i].ok }

\* the messages the Fetch of the tick has been asked for, wherever they are now
InFetch == pending \cup { messages[k] : k \in 1..Len(messages) }
                   \cup { disp[k].msg : k \in 1..Len(disp) }

\* C18: with sender filters the ids handed to the fetch are the deduplicated
\* union of the answered per-sender searches, and within one tick a message
\* is dispatched once at most and notified by one processor at most
C18_FetchSetIsUnionOnce ==
    /\ Len(Senders) > 0 => ids = UNION { SearchResult(i) : i \in Answered }
    /\ InFetch \subseteq ids
    /\ (Len(Senders) > 0 /\ prod = "running") => InFetch = ids
    /\ \A j, k \in 1..Len(disp) : disp[j].msg = disp[k].msg => j = k
    /\ \A k \in 1..Len(disp) : Len(disp[k].invoked) <= 1

\* C18 witness: two answered per-sender searches returned a common message,
\* which has been dispatched, next to a message only one of them returned
C18_Witness ==
    /\ Cardinality(Answered) = 2
    /\ \E i, j \in Answered :
          /\ i # j
          /\ SearchResult(i) \cap SearchResult(j) # {}
          /\ SearchResult(j) \ SearchResult(i) # {}
          /\ \E k \in 1..Len(disp) :
                disp[k].msg \in SearchResult(i) \cap SearchResult(j) /\ disp[k].ok
    /\ Len(disp) = 2

\* the distinct non-empty sender filters of the configuration
DistinctSenders == { Senders[i] : i \in 1..Len(Senders) }

\* C19: a tick that has finished searching has issued one search command per
\* distinct non-empty sender filter (processors sharing a sender cause one
\* search), and exactly one unfiltered search when no processor has a filter
C19_OneSearchPerDistinctSender ==
    (tickOutcome = "completed" \/ Issued("FETCH") # {}) =>
        Cardinality(Issued("SEARCH")) =
            IF DistinctSenders = {} THEN 1 ELSE Cardinality(DistinctSenders)

\* C20: the session of a tick is used by one thread of control at a time:
\* no flag-store is issued by the consumer while the producer goroutine is
\* still executing Fetch on the same session
C20_SessionUsedByOneThread ==
    \A k \in 1..Len(disp) : disp[k].stored => ~disp[k].fetching

----------------------------------------------------------------------------
(* telegram.Client.SendMessage *)
Digits == {"0", "1", "2", "3", "4", "5", "6", "7", "8", "9"}

\* the chat ids a configuration may carry
ChatIDs == { <<"1">>, <<"4", "2">>, <<"-", "7">>, <<"+", "3">>,
             <<>>, <<"x">>, <<"4", "x">>, <<"-">> }

\* strconv.ParseInt(s, 10, 64) succeeds: an optional sign, then one decimal
\* digit at least and digits only. The ids of ChatIDs are far shorter than
\* the 19 digits of the largest int64, so the range error cannot occur
parseInt64(s) ==
    LET body == IF s # <<>> /\ Head(s) \in {"+", "-"} THEN Tail(s) ELSE s
    IN body # <<>> /\ \A i \in 1..Len(body) : body[i] \in Digits

\* what one c.bot.Send call reports: 0 for a nil error, else the error
SendErrs == 1..NumSendErrs

maxRetries == 3

\* mutant: the same wait after every failed attempt
BackoffFlat(n) == 1

\* time.Duration(1<<uint(attempt-1)) * time.Second, in seconds
Backoff(n) == 2 ^ (n - 1)

\* mutant: only the first failure is remembered
RecordErrFirst(last, err) == IF last = 0 THEN err ELSE last

\* "lastErr = err"
RecordErr(last, err) == err

\* chatIDInt, err := parseInt64(chatID)
SendParse ==
    /\ tgpc = "parse"
    /\ IF parseInt64(tgChat)
       THEN /\ tgpc' = "attempt"
            /\ attempt' = 1
            /\ UNCHANGED tgResult
       ELSE /\ tgpc' = "returned"
            /\ tgResult' = SendResult("invalidChatID", 0)
            /\ UNCHANGED attempt
    /\ UNCHANGED <<tgChat, lastErr, tgSent, tgSlept>>
    /\ UNCHANGED <<processors, pollVars, batchVars, matchVars, genVars, extVars>>

\* one iteration of the retry loop: c.bot.Send, return nil on success, else
\* record the error and sleep unless this was the last attempt; after the
\* last attempt the loop ends and the wrapped lastErr is returned
SendAttempt ==
    /\ tgpc = "attempt"
    /\ attempt <= maxRetries
    /\ \E err \in {0} \cup SendErrs :
         /\ tgSent' = Append(tgSent, err)
         /\ IF err = 0
            THEN /\ tgpc' = "returned"
                 /\ tgResult' = SendResult("nil", 0)
                 /\ UNCHANGED <<attempt, lastErr, tgSlept>>
            ELSE /\ lastErr' = RecordErr(lastErr, err)
                 /\ attempt' = attempt + 1
                 /\ IF attempt < maxRetries
                    THEN /\ tgSlept' = Append(tgSlept, Backoff(attempt))
                         /\ UNCHANGED <<tgpc, tgResult>>
                    ELSE /\ tgpc' = "returned"
                         /\ tgResult' = SendResult("exhausted", lastErr')
                         /\ UNCHANGED tgSlept
    /\ UNCHANGED tgChat
    /\ UNCHANGED <<processors, pollVars, batchVars, matchVars, genVars, extVars>>

InitSend ==
    /\ processors = <<>>
    /\ cancelled = FALSE
    /\ PollUnused
    /\ bemails = <<>>
    /\ bpc = "unused"
    /\ bnext = 1
    /\ wg = 0
    /\ workers = <<>>
    /\ blog = <<>>
    /\ MatchUnused
    /\ tgChat \in ChatIDs
    /\ tgpc = "parse"
    /\ attempt = 0
    /\ lastErr = 0
    /\ tgSent = <<>>
    /\ tgSlept = <<>>
    /\ tgResult = NoResult
    /\ GenUnused
    /\ ExtUnused

NextSend == SendParse \/ SendAttempt

SpecSend == InitSend /\ [][NextSend]_vars

\* a destination that reads as a decimal integer, with or without a sign
ValidDestination(s) ==
    \E sign \in {<<>>, <<"+">>, <<"-">>} :
        /\ Len(s) > Len(sign)
        /\ SubSeq(s, 1, Len(sign)) = sign
        /\ \A i \in (Len(sign) + 1)..Len(s) : s[i] \in Digits

Failures == { k \in 1..Len(tgSent) : tgSent[k] # 0 }

\* C13: SendMessage with a valid destination makes between 1 and 3 delivery
\* attempts, no attempt follows a successful one, it returns nil at the first
\* success, and it returns an error iff all 3 attempts failed, that error
\* wrapping the error of the last attempt
C13_BoundedRetry ==
    /\ Len(tgSent) <= 3
    /\ \A k \in 1..(Len(tgSent) - 1) : tgSent[k] # 0
    /\ (tgpc = "returned" /\ ValidDestination(tgChat)) =>
          /\ Len(tgSent) >= 1
          /\ tgResult.kind = "nil" <=> tgSent[Len(tgSent)] = 0
          /\ tgResult.kind # "nil" <=> Cardinality(Failures) = 3
          /\ tgResult.kind # "nil" =>
                tgResult.kind = "exhausted" /\ tgResult.wraps = tgSent[3]

\* C13 witness: three attempts failed with three different errors and the
\* call returned the error of the third
C13_Witness ==
    /\ tgpc = "returned"
    /\ ValidDestination(tgChat)
    /\ Len(tgSent) = 3
    /\ tgSent[1] # tgSent[2] /\ tgSent[2] # tgSent[3] /\ tgSent[1] # tgSent[3]
    /\ tgResult.kind = "exhausted"

----------------------------------------------------------------------------
(* regexp: the patterns of the processor, matched as Go's regexp matches
   them (leftmost match, alternatives in order, greedy repetition) *)
Letters == { UpperLetters[i] : i \in 1..Len(UpperLetters) }
               \cup { LowerLetters[i] : i \in 1..Len(LowerLetters) }
Alnum == Letters \cup Digits
WordChars == Alnum \cup {"_"}

\* cls{min,max}; max = 0 stands for no upper limit
Atom(cls, min, max) == [cls |-> cls, min |-> min, max |-> max]

\* one alternative: atoms in sequence, \b in front when b0 and behind when b1
Alt(b0, atoms, b1) == [b0 |-> b0, atoms |-> atoms, b1 |-> b1]

Regexp(alts) == [alts |-> alts]

IsWordAt(text, p) == p >= 1 /\ p <= Len(text) /\ text[p] \in WordChars

\* \b holds in front of position p
WordBoundary(text, p) == IsWordAt(text, p - 1) # IsWordAt(text, p)

\* how many bytes of cls stand at position i and after
RECURSIVE RunLen(_, _, _)
RunLen(text, i, cls) ==
    IF i <= Len(text) /\ text[i] \in cls THEN 1 + RunLen(text, i + 1, cls) ELSE 0

\* the position behind the match of atoms k.. of alt at position i, 0 when
\* there is none; a repetition takes as many bytes as it can and gives back
\* one at a time
RECURSIVE MatchAtoms(_, _, _, _)
RECURSIVE TryCount(_, _, _, _, _)
MatchAtoms(alt, text, i, k) ==
    IF k > Len(alt.atoms)
    THEN IF alt.b1 /\ ~WordBoundary(text, i) THEN 0 ELSE i
    ELSE LET a     == alt.atoms[k]
             avail == RunLen(text, i, a.cls)
             top   == IF a.max # 0 /\ a.max < avail THEN a.max ELSE avail
         IN IF top < a.min THEN 0 ELSE TryCount(alt, text, i, k, top)

TryCount(alt, text, i, k, n) ==
    LET r == MatchAtoms(alt, text, i + n, k + 1)
    IN IF r # 0 THEN r
       ELSE IF n > alt.atoms[k].min THEN TryCount(alt, text, i, k, n - 1)
       ELSE 0

\* the first alternative from index a on that matches at position i
RECURSIVE MatchAt(_, _, _, _)
MatchAt(re, text, i, a) ==
    IF a > Len(re.alts) THEN 0
    ELSE LET alt == re.alts[a]
             r   == IF alt.b0 /\ ~WordBoundary(text, i) THEN 0
                    ELSE MatchAtoms(alt, text, i, 1)
         IN IF r # 0 THEN r ELSE MatchAt(re, text, i, a + 1)

NoMatchFound == [found |-> FALSE, match |-> <<>>]

\* Regexp.FindStringSubmatch from position i on: the leftmost match
RECURSIVE FindFrom(_, _, _)
FindFrom(re, text, i) ==
    IF i > Len(text) THEN NoMatchFound
    ELSE LET r == MatchAt(re, text, i, 1)
         IN IF r # 0 THEN [found |-> TRUE, match |-> SubSeq(text, i, r - 1)]
            ELSE FindFrom(re, text, i + 1)

\* Regexp.FindStringSubmatch: found is len(matches) > 0, match is matches[0],
\* which for the patterns of this program is also their only group
FindStringSubmatch(re, text) == FindFrom(re, text, 1)

\* `\b\d{6}\b`
reCloudflare == Regexp(<<Alt(TRUE, <<Atom(Digits, 6, 6)>>, TRUE)>>)

\* `(?:\d{5,6}|[a-zA-Z0-9]+-[a-zA-Z0-9]+)`
rePerplexity ==
    Regexp(<<Alt(FALSE, <<Atom(Digits, 5, 6)>>, FALSE),
             Alt(FALSE, <<Atom(Alnum, 1, 0), Atom({"-"}, 1, 1), Atom(Alnum, 1, 0)>>, FALSE)>>)

\* `\b[a-zA-Z0-9]{4,8}\b`
reDefault == Regexp(<<Alt(TRUE, <<Atom(Alnum, 4, 8)>>, TRUE)>>)

\* `\b(\d{5,6})\b`
numericPattern == Regexp(<<Alt(TRUE, <<Atom(Digits, 5, 6)>>, TRUE)>>)

\* `\b([a-zA-Z0-9]+-[a-zA-Z0-9]+)\b`
alphanumericPattern ==
    Regexp(<<Alt(TRUE, <<Atom(Alnum, 1, 0), Atom({"-"}, 1, 1), Atom(Alnum, 1, 0)>>, TRUE)>>)

\* a nil *regexp.Regexp
NilPattern == Regexp(<<>>)

----------------------------------------------------------------------------
(* GenericEmailProcessor: construction, content decoding, extraction *)
\* const NotFoundCode
NotFoundCode == <<"N", "o", "t", " ", "f", "o", "u", "n", "d">>
LFLF == <<"\n", "\n">>
CRLFCRLF == <<"\r", "\n", "\r", "\n">>
marker_directly == <<"d", "i", "r", "e", "c", "t", "l", "y", ":">>
marker_directamente ==
    <<"d", "i", "r", "e", "c", "t", "a", "m", "e", "n", "t", "e", ":">>
key_default == <<"d", "e", "f", "a", "u", "l", "t">>

\* stripMIMEHeaders: the text behind the first "\n\n", else behind the first
\* "\r\n\r\n", else the text itself
stripMIMEHeaders(text) ==
    IF Index(text, LFLF) # -1 THEN SliceFrom(text, Index(text, LFLF) + Len(LFLF))
    ELSE IF Index(text, CRLFCRLF) # -1
         THEN SliceFrom(text, Index(text, CRLFCRLF) + Len(CRLFCRLF))
         ELSE text

(* mime/quotedprintable.Reader *)
QPDiscard == {"\n", "\r", " ", "\t"}

\* bytes.TrimRightFunc(line, isQPDiscardWhitespace)
RECURSIVE TrimRight(_)
TrimRight(line) ==
    IF line # <<>> /\ line[Len(line)] \in QPDiscard
    THEN TrimRight(SubSeq(line, 1, Len(line) - 1))
    ELSE line

HasPrefix(s, pre) == Len(s) >= Len(pre) /\ SubSeq(s, 1, Len(pre)) = pre
HasSuffix(s, suf) == Len(s) >= Len(suf) /\ SubSeq(s, Len(s) - Len(suf) + 1, Len(s)) = suf

\* fromHex: the value of a hex digit, -1 for any other byte
fromHex(c) ==
    IF \E i \in 1..Len(HexDigits) : HexDigits[i] = c
    THEN (CHOOSE i \in 1..Len(HexDigits) : HexDigits[i] = c) - 1
    ELSE IF \E i \in 11..Len(HexDigits) : LowerChar(HexDigits[i]) = c
         THEN (CHOOSE i \in 11..Len(HexDigits) : LowerChar(HexDigits[i]) = c) - 1
         ELSE -1

QPOut(out, err) == [out |-> out, err |-> err]

\* the byte loop of Reader.Read over one prepared line
RECURSIVE QPBytes(_)
QPBytes(line) ==
    IF line = <<>> THEN QPOut(<<>>, FALSE)
    ELSE LET b == Head(line)
         IN IF b = "="
            THEN IF Len(line) >= 3 /\ fromHex(line[2]) # -1 /\ fromHex(line[3]) # -1
                 THEN LET rest == QPBytes(SubSeq(line, 4, Len(line)))
                      IN QPOut(<<ByteChar(fromHex(line[2]) * 16 + fromHex(line[3]))>> \o rest.out,
                               rest.err)
                 ELSE IF Len(line) >= 2 /\ line[2] \notin {"\r", "\n"}
                      THEN LET rest == QPBytes(Tail(line))
                           IN QPOut(<<"=">> \o rest.out, rest.err)
                      ELSE QPOut(<<>>, TRUE)
            ELSE IF b \in {"\t", "\r", "\n"} \/ b \in HighBytes
                      \/ \E i \in 1..Len(Ascii) : Ascii[i] = b
                 THEN LET rest == QPBytes(Tail(line))
                      IN QPOut(<<b>> \o rest.out, rest.err)
                 ELSE QPOut(<<>>, TRUE)

\* what Reader.Read makes of one line read by ReadSlice('\n'); atEOF when the
\* line ended with the input and not with "\n"
QPLine(whole, atEOF) ==
    LET hasLF   == HasSuffix(whole, <<"\n">>)
        hasCR   == HasSuffix(whole, <<"\r", "\n">>)
        trimmed == TrimRight(whole)
    IN IF HasSuffix(trimmed, <<"=">>)
       THEN LET rightStripped == SubSeq(whole, Len(trimmed) + 1, Len(whole))
                line          == SubSeq(trimmed, 1, Len(trimmed) - 1)
                bad == /\ ~HasPrefix(rightStripped, <<"\n">>)
                       /\ ~HasPrefix(rightStripped, <<"\r", "\n">>)
                       /\ ~(rightStripped = <<>> /\ line # <<>> /\ atEOF)
                dec == QPBytes(line)
            IN QPOut(dec.out, dec.err \/ bad)
       ELSE QPBytes(IF hasLF
                    THEN trimmed \o (IF hasCR THEN <<"\r", "\n">> ELSE <<"\n">>)
                    ELSE trimmed)

\* io.ReadAll(quotedprintable.NewReader(...)): line after line
RECURSIVE QPReadAll(_)
QPReadAll(text) ==
    IF text = <<>> THEN QPOut(<<>>, FALSE)
    ELSE LET nl == Index(text, <<"\n">>)
         IN IF nl = -1 THEN QPLine(text, TRUE)
            ELSE LET first == QPLine(SubSeq(text, 1, nl + 1), FALSE)
                     rest  == QPReadAll(SliceFrom(text, nl + 1))
                 IN QPOut(first.out \o rest.out, first.err \/ rest.err)

\* mutant: what was decoded before the error is used
decodeQuotedPrintablePartial(text) ==
    IF Contains(text, <<"=">>) THEN QPReadAll(text).out ELSE text

\* decodeQuotedPrintable: the decoded text when the text holds a "=" and
\* decodes without error, else the text itself
decodeQuotedPrintable(text) ==
    IF Contains(text, <<"=">>) /\ ~QPReadAll(text).err
    THEN QPReadAll(text).out
    ELSE text

(* fmt.Sprintf(format, code) with the one string argument of Process; the
   templates of this model hold no verb but %s and %% *)
fmt_MISSING ==
    <<"%", "!", "s", "(", "M", "I", "S", "S", "I", "N", "G", ")">>
fmt_NOVERB == <<"%", "!", "(", "N", "O", "V", "E", "R", "B", ")">>
fmt_EXTRA ==
    <<"%", "!", "(", "E", "X", "T", "R", "A", " ", "s", "t", "r", "i", "n",
    "g", "=">>

RECURSIVE doPrintf(_, _, _, _)
doPrintf(format, i, code, used) ==
    IF i > Len(format)
    THEN IF used THEN <<>> ELSE fmt_EXTRA \o code \o <<")">>
    ELSE IF format[i] # "%" THEN <<format[i]>> \o doPrintf(format, i + 1, code, used)
    ELSE IF i = Len(format) THEN fmt_NOVERB \o doPrintf(format, i + 1, code, used)
    ELSE IF format[i + 1] = "%" THEN <<"%">> \o doPrintf(format, i + 2, code, used)
    ELSE IF used THEN fmt_MISSING \o doPrintf(format, i + 2, code, used)
    ELSE code \o doPrintf(format, i + 2, code, TRUE)

Sprintf(format, code) == doPrintf(format, 1, code, FALSE)

(* regexp.Compile on the custom patterns a configuration may carry *)
\* a pattern that compiles
src_upper3 == <<"[", "A", "-", "Z", "]", "{", "3", "}">>
\* a pattern that does not compile: missing closing ]
src_unclosed == <<"[", "A", "-", "Z">>

UpperSet == { UpperLetters[i] : i \in 1..Len(UpperLetters) }

Compile(src) ==
    CASE src = src_upper3 ->
             [ok |-> TRUE, re |-> Regexp(<<Alt(FALSE, <<Atom(UpperSet, 3, 3)>>, FALSE)>>)]
      [] src = src_unclosed -> [ok |-> FALSE, re |-> NilPattern]

\* processor.defaultPatterns
DefaultKeys == {cloudflare, perplexity, key_default}

defaultPatterns(key) ==
    CASE key = cloudflare  -> reCloudflare
      [] key = perplexity  -> rePerplexity
      [] key = key_default -> reDefault

\* config.ServiceProcessorConfig as far as Process reads it
ServiceConfig(pattern, template) == [CodePattern |-> pattern, TelegramMessage |-> template]

\* the processor value: codePattern is NilPattern until it is resolved
GenericEmailProcessor(name, config, codePattern, warned) ==
    [name |-> name, config |-> config, codePattern |-> codePattern, warned |-> warned]

\* mutant: the built-in pattern of the name wins over the custom pattern
ResolveNamedFirst(name, custom) ==
    IF ToLower(name) \in DefaultKeys THEN defaultPatterns(ToLower(name))
    ELSE IF custom # NilPattern THEN custom
    ELSE defaultPatterns(key_default)

\* mutant: the built-in patterns are looked up under the name as configured
ResolveExactName(name, custom) ==
    IF custom # NilPattern THEN custom
    ELSE IF name \in DefaultKeys THEN defaultPatterns(name)
    ELSE defaultPatterns(key_default)

\* NewGenericEmailProcessor: the pattern left in processor.codePattern, given
\* what the custom pattern compiled to (NilPattern when absent or invalid)
Resolve(name, custom) ==
    IF custom # NilPattern THEN custom
    ELSE IF ToLower(name) \in DefaultKeys THEN defaultPatterns(ToLower(name))
    ELSE defaultPatterns(key_default)

NewGenericEmailProcessor(name, config) ==
    LET given  == config.CodePattern # <<>>
        custom == IF given /\ Compile(config.CodePattern).ok
                  THEN Compile(config.CodePattern).re ELSE NilPattern
    IN GenericEmailProcessor(name, config, Resolve(name, custom),
                             given /\ ~Compile(config.CodePattern).ok)

\* the outcome of an extraction: the code, the patterns that were run, in
\* order, and whether the call panicked
Extraction(code, tried, panicked) == [code |-> code, tried |-> tried, panicked |-> panicked]

\* mutant: without a marker the whole text is searched
MarkerEndOrStart(lowerText) ==
    IF Index(lowerText, marker_directly) # -1
    THEN Index(lowerText, marker_directly) + Len(marker_directly)
    ELSE IF Index(lowerText, marker_directamente) # -1
         THEN Index(lowerText, marker_directamente) + Len(marker_directamente)
         ELSE 0

\* extractPerplexityCode, the loop over markers: idx+len(marker) for the
\* first marker that occurs in lowerText, -1 when markerFound stays false
MarkerEnd(lowerText) ==
    IF Index(lowerText, marker_directly) # -1
    THEN Index(lowerText, marker_directly) + Len(marker_directly)
    ELSE IF Index(lowerText, marker_directamente) # -1
         THEN Index(lowerText, marker_directamente) + Len(marker_directamente)
         ELSE -1

\* extractPerplexityCode: the slice text[idx+len(marker):] is taken with an
\* index found in lowerText and panics when that index lies behind the text
extractPerplexityCode(p, text) ==
    LET from == MarkerEnd(ToLower(text))
    IN IF from = -1 THEN Extraction(NotFoundCode, <<>>, FALSE)
       ELSE IF from > Len(text) THEN Extraction(<<>>, <<>>, TRUE)
       ELSE LET searchText == SliceFrom(text, from)
                m1 == FindStringSubmatch(numericPattern, searchText)
                m2 == FindStringSubmatch(alphanumericPattern, searchText)
                m3 == FindStringSubmatch(p.codePattern, searchText)
            IN IF m1.found THEN Extraction(m1.match, <<"numeric">>, FALSE)
               ELSE IF m2.found
                    THEN Extraction(m2.match, <<"numeric", "alphanumeric">>, FALSE)
               ELSE IF m3.found
                    THEN Extraction(m3.match,
                                    <<"numeric", "alphanumeric", "codePattern">>, FALSE)
               ELSE Extraction(NotFoundCode,
                               <<"numeric", "alphanumeric", "codePattern">>, FALSE)

\* extractCode, the variable body: the text as it is for the processor named
\* cloudflare, without its headers for every other
ExtractBody(p, text) ==
    IF ToLower(p.name) = cloudflare THEN text ELSE stripMIMEHeaders(text)

\* extractCode
extractCode(p, text) ==
    LET body == ExtractBody(p, text)
    IN IF ToLower(p.name) = perplexity THEN extractPerplexityCode(p, body)
       ELSE LET m == FindStringSubmatch(p.codePattern, body)
            IN Extraction(IF m.found THEN m.match ELSE NotFoundCode, <<"codePattern">>, FALSE)

\* what one Process call does: the extraction, the messages handed to
\* telegram.SendMessage and the returned error, which is SendMessage's
ProcessCall(p, text, sendRes) ==
    LET x == extractCode(p, decodeQuotedPrintable(text))
        body == ExtractBody(p, decodeQuotedPrintable(text))
    IN IF x.panicked
       THEN [x |-> x, body |-> body, calls |-> <<>>, result |-> "none"]
       ELSE [x |-> x, body |-> body,
             calls |-> <<Sprintf(p.config.TelegramMessage, x.code)>>,
             result |-> sendRes]

----------------------------------------------------------------------------
(* Process on its own: one processor, one message after another *)
\* a six-digit code, no header block, no marker
body_plain ==
    <<"C", "o", "d", "e", ":", " ", "1", "2", "3", "4", "5", "6">>
\* a header block, the English marker, a numeric code
body_header ==
    <<"H", ":", " ", "1", "\n", "\n", "u", "s", "e", " ", "d", "i", "r", "e",
    "c", "t", "l", "y", ":", " ", "1", "2", "3", "4", "5", " ", "n", "o",
    "w">>
\* the Spanish marker and a hyphenated code
body_hyphen ==
    <<"U", "s", "a", " ", "d", "i", "r", "e", "c", "t", "a", "m", "e", "n",
    "t", "e", ":", " ", "a", "w", "9", "s", "5", "-", "y", "1", "z", "o",
    "y">>
\* the marker with a capital, then three capitals only
body_upper ==
    <<"D", "i", "r", "e", "c", "t", "l", "y", ":", " ", "A", "B", "C">>
\* a CRLF header block that holds a code itself
body_idheader ==
    <<"X", "-", "I", "d", ":", " ", "6", "5", "4", "3", "2", "1", "\r", "\n",
    "\r", "\n", "A", "B", "C", " ", "1", "2", "3", "4", "5", "6">>
\* quoted-printable: an encoded "=" and a soft line break in the code
body_qp ==
    <<"a", "=", "3", "D", "b", " ", "d", "i", "r", "e", "c", "t", "l", "y",
    ":", " ", "7", "7", "=", "\n", "7", "7", "7">>
\* quoted-printable ISO-8859-1: "=F3" decodes to the byte 0xF3; the marker ends the text
body_qp8bit ==
    <<"c", "=", "F", "3", "d", "i", "g", "o", " ", "d", "i", "r", "e", "c",
    "t", "a", "m", "e", "n", "t", "e", ":">>
\* a "=" followed by a blank before the line end: the decoder fails
body_badqp ==
    <<"k", "=", " ", "\n", "d", "i", "r", "e", "c", "t", "l", "y", ":", " ",
    "1", "2", "3", "4", "5">>
\* nothing a pattern could match
body_miss == <<"n", "/", "a">>
\* token-shaped text before the marker, nothing behind it
body_markerlast ==
    <<"A", "B", "C", " ", "1", "2", "3", "4", "5", "6", " ", "d", "i", "r",
    "e", "c", "t", "l", "y", ":">>
\* a raw byte 0xF3 in front of the marker and the code
body_8bit ==
    <<"xF3", " ", "d", "i", "r", "e", "c", "t", "l", "y", ":", " ", "1", "2",
    "3", "4", "5", " ">>
\* a CRLF header block, a code, an empty LF line further down
body_mixed ==
    <<"A", ":", " ", "1", "\r", "\n", "\r", "\n", "1", "2", "3", "4", "5", "6",
    "\n", "\n", "b", "y", "e">>
\* token-shaped text of every kind and no marker
body_nomarker ==
    <<"A", "B", "C", "D", " ", "1", "2", "3", "4", "5", " ", "a", "b", "-",
    "c", "d">>

GenTexts ==
    { body_plain, body_header, body_hyphen, body_upper,
      body_idheader, body_qp, body_qp8bit, body_badqp,
      body_miss, body_markerlast, body_8bit, body_nomarker, body_mixed }

\* notification templates
tpl_code == <<"C", "o", "d", "e", ":", " ", "%", "s">>
tpl_percent == <<"%", "s", "%", "%">>

GenNames    == {perplexity, Cloudflare, github}
GenPatterns == {<<>>, src_upper3, src_unclosed}
GenTemplates == {tpl_code, tpl_percent}

\* NewGenericEmailProcessor is called with the configured name and service
GenNew ==
    /\ gpc = "new"
    /\ gp' = NewGenericEmailProcessor(gp.name, gp.config)
    /\ gpc' = "ready"
    /\ UNCHANGED <<gText, gTried, gCode, gBody, gCalls, gResult>>
    /\ UNCHANGED <<processors, pollVars, batchVars, matchVars, sendVars, extVars>>

\* Process(email): decode, extract, format, send; sendRes is what
\* telegram.SendMessage returns. A panic leaves the call without a result
GenProcess ==
    /\ gpc = "ready"
    /\ \E sendRes \in {"nil", "err"} :
         LET r == ProcessCall(gp, gText, sendRes)
         IN /\ gTried' = r.x.tried
            /\ gCode' = r.x.code
            /\ gBody' = r.body
            /\ gCalls' = r.calls
            /\ gResult' = r.result
            /\ gpc' = IF r.x.panicked THEN "panicked" ELSE "done"
    /\ UNCHANGED <<gp, gText>>
    /\ UNCHANGED <<processors, pollVars, batchVars, matchVars, sendVars, extVars>>

\* the caller hands the next message to the same processor
GenNextEmail ==
    /\ gpc = "done"
    /\ gText' \in GenTexts
    /\ gpc' = "ready"
    /\ gTried' = <<>>
    /\ gCode' = <<>>
    /\ gBody' = <<>>
    /\ gCalls' = <<>>
    /\ gResult' = "none"
    /\ UNCHANGED gp
    /\ UNCHANGED <<processors, pollVars, batchVars, matchVars, sendVars, extVars>>

InitProcess ==
    /\ processors = <<>>
    /\ cancelled = FALSE
    /\ PollUnused
    /\ bemails = <<>>
    /\ bpc = "unused"
    /\ bnext = 1
    /\ wg = 0
    /\ workers = <<>>
    /\ blog = <<>>
    /\ MatchUnused
    /\ SendUnused
    /\ gp \in { GenericEmailProcessor(n, ServiceConfig(pat, tpl), NilPattern, FALSE) :
                  n \in GenNames, pat \in GenPatterns, tpl \in GenTemplates }
    /\ gText \in GenTexts
    /\ gpc = "new"
    /\ gTried = <<>>
    /\ gCode = <<>>
    /\ gBody = <<>>
    /\ gCalls = <<>>
    /\ gResult = "none"
    /\ ExtUnused

NextProcess == GenNew \/ GenProcess \/ GenNextEmail

SpecProcess == InitProcess /\ [][NextProcess]_vars

\* the processor was configured with a custom pattern that compiles
HasValidCustom == gp.config.CodePattern # <<>> /\ Compile(gp.config.CodePattern).ok

\* the processor was configured with a custom pattern that does not compile
HasInvalidCustom == gp.config.CodePattern # <<>> /\ ~Compile(gp.config.CodePattern).ok

MarkerGated == ToLower(gp.name) = perplexity

\* the text extraction works on: decoded, and header-stripped unless the
\* processor is the cloudflare one
GenBody ==
    IF ToLower(gp.name) = cloudflare THEN decodeQuotedPrintable(gText)
    ELSE stripMIMEHeaders(decodeQuotedPrintable(gText))

\* s as a whole is a match of pattern re
MatchesWhole(re, s) ==
    FindStringSubmatch(re, s).found /\ FindStringSubmatch(re, s).match = s

\* the first match of re in s, the sentinel when there is none
FirstMatchOr(re, s) ==
    IF FindStringSubmatch(re, s).found THEN FindStringSubmatch(re, s).match
    ELSE NotFoundCode

\* C14 as stated: with a custom pattern that compiles, for every processor
\* name, the marker-gated one included, a token returned by extraction is a
\* match of the custom pattern, not of a built-in or hard-coded pattern
C14_TokenIsCustomMatch ==
    (gpc = "done" /\ HasValidCustom /\ gCode # NotFoundCode) =>
        MatchesWhole(Compile(gp.config.CodePattern).re, gCode)

\* C14 amended: a custom pattern that compiles is the resolved pattern,
\* never the built-in one of the name; a processor that is not marker-gated
\* returns the first match of the custom pattern in the body or the
\* sentinel; the marker-gated processor runs the custom pattern only as its
\* third candidate, after the two hard-coded ones found nothing
C14_CustomPatternResolved ==
    (gpc # "new" /\ HasValidCustom) =>
        /\ gp.codePattern = Compile(gp.config.CodePattern).re
        /\ (gpc = "done" /\ ~MarkerGated) =>
              /\ gTried = <<"codePattern">>
              /\ gCode = FirstMatchOr(Compile(gp.config.CodePattern).re, GenBody)
        /\ (gpc = "done" /\ MarkerGated) =>
              /\ \A k \in 1..Len(gTried) : gTried[k] = "codePattern" => k = 3
              /\ Len(gTried) < 3 =>
                    \/ gCode = NotFoundCode
                    \/ MatchesWhole(numericPattern, gCode)
                    \/ MatchesWhole(alphanumericPattern, gCode)
              /\ Len(gTried) = 3 =>
                    \/ gCode = NotFoundCode
                    \/ MatchesWhole(Compile(gp.config.CodePattern).re, gCode)

\* C14 witness: a processor named Cloudflare with a custom pattern returned
\* the custom pattern's match from a body in which the built-in cloudflare
\* pattern matches something else
C14_Witness ==
    /\ gpc = "done"
    /\ HasValidCustom
    /\ ToLower(gp.name) = cloudflare
    /\ gCode # NotFoundCode
    /\ FindStringSubmatch(reCloudflare, GenBody).found
    /\ FindStringSubmatch(reCloudflare, GenBody).match # gCode

\* the pattern an absent custom pattern leaves: the built-in one of the
\* lower-cased name, else the generic one
NamedOrGeneric ==
    IF ToLower(gp.name) = cloudflare THEN reCloudflare
    ELSE IF ToLower(gp.name) = perplexity THEN rePerplexity
    ELSE reDefault

\* the same processor configured without a custom pattern
Twin == NewGenericEmailProcessor(gp.name, ServiceConfig(<<>>, gp.config.TelegramMessage))

\* C15: a custom pattern that does not compile is no run-time failure:
\* construction succeeds with the built-in pattern of the lower-cased name,
\* or the generic one, as resolved pattern, and every Process call does what
\* it does for the processor configured without a custom pattern
C15_InvalidCustomFallsBack ==
    (gpc # "new" /\ HasInvalidCustom) =>
        /\ gp.codePattern = NamedOrGeneric
        /\ gp.codePattern = Twin.codePattern
        /\ gpc \in {"done", "panicked"} =>
              \E sendRes \in {"nil", "err"} :
                 LET r == ProcessCall(Twin, gText, sendRes)
                 IN /\ r.x.panicked <=> gpc = "panicked"
                    /\ r.x.tried = gTried
                    /\ r.x.code = gCode
                    /\ r.calls = gCalls
                    /\ r.result = gResult

\* C15 witness: a processor named Cloudflare whose custom pattern did not
\* compile extracted a code with the built-in cloudflare pattern
C15_Witness ==
    /\ gpc = "done"
    /\ HasInvalidCustom
    /\ gp.name = Cloudflare
    /\ gp.warned
    /\ gCode # NotFoundCode
    /\ MatchesWhole(reCloudflare, gCode)

\* marker occurs in s, letter case aside
OccursFold(s, marker) ==
    \E i \in 0..(Len(s) - Len(marker)) :
        \A j \in 1..Len(marker) : LowerChar(s[i + j]) = marker[j]

NoMarker == ~OccursFold(GenBody, marker_directly) /\ ~OccursFold(GenBody, marker_directamente)

\* C16: when no marker variant occurs in the header-stripped body, the
\* marker-gated extraction returns the sentinel and runs no candidate
\* pattern, whatever token-shaped text the body holds
C16_NoMarkerNoAttempt ==
    (gpc \in {"done", "panicked"} /\ MarkerGated /\ NoMarker) =>
        /\ gpc = "done"
        /\ gCode = NotFoundCode
        /\ gTried = <<>>

\* C16 witness: the marker-gated processor returned the sentinel for a body
\* without marker in which the numeric, the hyphenated and the resolved
\* pattern all have a match
C16_Witness ==
    /\ gpc = "done"
    /\ MarkerGated
    /\ NoMarker
    /\ gCode = NotFoundCode
    /\ FindStringSubmatch(numericPattern, GenBody).found
    /\ FindStringSubmatch(alphanumericPattern, GenBody).found
    /\ FindStringSubmatch(gp.codePattern, GenBody).found

\* the template with the code in the place of its %s
Formatted(template, code) ==
    IF template = tpl_code THEN SubSeq(tpl_code, 1, Len(tpl_code) - 2) \o code
    ELSE code \o <<"%">>

\* C17: an extraction miss is not an error: every Process call hands the
\* notifier exactly one message, the template formatted with the extracted
\* token or the sentinel, and returns what the notifier returned, so that a
\* miss on an allowlisted processor is notified and marked read
C17_ProcessNotifiesOnce ==
    gpc \in {"done", "panicked"} =>
        /\ Len(gCalls) = 1
        /\ gCalls[1] = Formatted(gp.config.TelegramMessage, gCode)
        /\ gResult \in {"nil", "err"}
        /\ (gCode = NotFoundCode /\ gResult = "nil"
              /\ ToLower(gp.name) \in {perplexity, cloudflare}) =>
                 handlePostProcessing(Processor(gp.name, TRUE, <<>>, <<>>))

----------------------------------------------------------------------------
(* Manager.ProcessEmailsConcurrently called concurrently on one Manager:
   every call adds to and waits on the one pm.wg *)
\* the concurrent calls
Callers == 1..NumCallers

\* the batch of call c: n messages of the mailbox
BatchOf(c, n) == [i \in 1..n |-> ((c + i - 2) % NumMsgs) + 1]

\* one call: its batch, its position ("ready", "spawning", "wait",
\* "blocked", "woken", "returned", "panicked"), the index of the next email
\* and the emails whose goroutine was started and has not finished
Call(emails, cpc, next, inFlight) ==
    [emails |-> emails, pc |-> cpc, next |-> next, running |-> inFlight]

\* the ways a goroutine ends
Finished == {"processed", "failed", "ignored", "skipped"}

\* how processEmailAsync ends for a dispatch record
FinishKind(r) ==
    IF r.state = "handled" THEN (IF r.ok THEN "processed" ELSE "failed") ELSE r.state

MgrFrame ==
    UNCHANGED <<processors, pollVars, batchVars, matchVars, sendVars, genVars, hook, ep, fp, tk>>

\* ProcessEmailsConcurrently: entry, returning at once on an empty batch
CallEnter(c) ==
    /\ mgr # <<>> /\ ~mgr.panicked
    /\ mgr.calls[c].pc = "ready"
    /\ mgr' = [mgr EXCEPT !.calls[c].pc =
                 IF Len(mgr.calls[c].emails) = 0 THEN "returned" ELSE "spawning"]
    /\ MgrFrame

\* a Wait of an earlier round was released and has not returned yet
Released == \E d \in Callers : mgr.calls[d].pc = "woken"

\* pm.wg.Add(1); go pm.processEmailAsync(ctx, email). An Add that raises the
\* counter from zero while a released Wait has not returned is the misuse
\* sync.WaitGroup panics on, in Add or in that Wait depending on the timing
CallSpawn(c) ==
    /\ mgr # <<>> /\ ~mgr.panicked
    /\ mgr.calls[c].pc = "spawning"
    /\ LET call == mgr.calls[c]
           k == call.next
       IN \/ mgr' = [mgr EXCEPT !.wg = @ + 1,
                                !.calls[c].running = @ \cup {k},
                                !.calls[c].next = k + 1,
                                !.calls[c].pc =
                                    IF k = Len(call.emails) THEN "wait" ELSE "spawning"]
          \/ /\ mgr.wg = 0 /\ Released
             /\ mgr' = [mgr EXCEPT !.panicked = TRUE, !.calls[c].pc = "panicked"]
    /\ MgrFrame

\* processEmailAsync: defer pm.wg.Done() runs however the goroutine ends
DoneDelta(kind) == 1

\* the goroutine of email k of call c: the ctx.Done() check, the dispatch,
\* the deferred wg.Done(), which releases every blocked Wait at zero
Goroutine(c, k) ==
    /\ mgr # <<>> /\ ~mgr.panicked
    /\ k \in mgr.calls[c].running
    /\ \E sendOk \in BOOLEAN :
         LET kind == IF cancelled THEN "skipped"
                     ELSE FinishKind(processEmailAsync(processors,
                              parseMessage(mgr.calls[c].emails[k]), 1, sendOk))
             left == mgr.wg - DoneDelta(kind)
         IN mgr' = [mgr EXCEPT
                      !.wg = left,
                      !.ended = @ \cup {kind},
                      !.calls = [d \in Callers |->
                          LET call == IF d = c
                                      THEN [mgr.calls[d] EXCEPT !.running = @ \ {k}]
                                      ELSE mgr.calls[d]
                          IN IF call.pc = "blocked" /\ left = 0
                             THEN [call EXCEPT !.pc = "woken"] ELSE call]]
    /\ MgrFrame

\* mutant: Wait never blocks
WaitPassesAlways(counter) == TRUE

\* sync.WaitGroup.Wait returns without blocking at counter zero only
WaitPasses(counter) == counter = 0

\* pm.wg.Wait(): returns at once at counter zero, else blocks
CallWait(c) ==
    /\ mgr # <<>> /\ ~mgr.panicked
    /\ mgr.calls[c].pc = "wait"
    /\ mgr' = [mgr EXCEPT !.calls[c].pc =
                 IF WaitPasses(mgr.wg) THEN "returned" ELSE "blocked"]
    /\ MgrFrame

\* pm.wg.Wait() after its release: it panics when the WaitGroup was reused
\* in the meantime, else it returns and so does ProcessEmailsConcurrently
CallWake(c) ==
    /\ mgr # <<>> /\ ~mgr.panicked
    /\ mgr.calls[c].pc = "woken"
    /\ mgr' = IF mgr.wg # 0
              THEN [mgr EXCEPT !.panicked = TRUE, !.calls[c].pc = "panicked"]
              ELSE [mgr EXCEPT !.calls[c].pc = "returned"]
    /\ MgrFrame

\* the context of the calls is cancelled
MgrCancel == mgr # <<>> /\ ~mgr.panicked /\ Cancel

\* mgr.ended: the ways goroutines of this Manager have ended so far
InitManager ==
    /\ processors = <<Processor(perplexity, TRUE, s_a, <<s_x>>)>>
    /\ cancelled = FALSE
    /\ PollUnused
    /\ bemails = <<>>
    /\ bpc = "unused"
    /\ bnext = 1
    /\ wg = 0
    /\ workers = <<>>
    /\ blog = <<>>
    /\ MatchUnused
    /\ SendUnused
    /\ GenUnused
    /\ \E sizes \in [Callers -> 0..MaxBatch] :
         mgr = [wg |-> 0, panicked |-> FALSE, ended |-> {},
                calls |-> [c \in Callers |->
                    Call(BatchOf(c, sizes[c]), "ready", 1, {})]]
    /\ hook = <<>>
    /\ ep = <<>>
    /\ fp = <<>>
    /\ tk = <<>>

NextManager ==
    \/ MgrCancel
    \/ \E c \in Callers :
         \/ CallEnter(c)
         \/ CallSpawn(c)
         \/ CallWait(c)
         \/ CallWake(c)
         \/ \E k \in 1..Len(mgr.calls[c].emails) : Goroutine(c, k)

SpecManager == InitManager /\ [][NextManager]_vars

\* C21: ProcessEmailsConcurrently is a barrier, also for calls running
\* concurrently on one Manager: a call that has returned started a goroutine
\* for every email of its batch and every one of them has finished
C21_CallReturnsAfterItsGoroutines ==
    \A c \in Callers :
        mgr.calls[c].pc = "returned" =>
            /\ mgr.calls[c].next = Len(mgr.calls[c].emails) + 1
            /\ mgr.calls[c].running = {}

\* every call had a full batch and has returned, and goroutines ended in
\* every way there is
C21_Witness ==
    /\ \A c \in Callers : mgr.calls[c].pc = "returned"
                          /\ Len(mgr.calls[c].emails) = MaxBatch
    /\ mgr.ended = Finished

----------------------------------------------------------------------------
(* WebhookHandler.HandleTorrentComplete and TorrentProcessor.Process *)
\* request bodies: both fields
req_full ==
    <<"{", "\"", "t", "o", "r", "r", "e", "n", "t", "_", "n", "a", "m", "e",
    "\"", ":", "\"", "a", "\"", ",", "\"", "s", "a", "v", "e", "_", "p", "a",
    "t", "h", "\"", ":", "\"", "b", "\"", "}">>
\* an object without fields
req_object == <<"{", "}">>
\* the JSON null
req_null == <<"n", "u", "l", "l">>
\* an object followed by text that is no JSON
req_trailing ==
    <<"{", "\"", "t", "o", "r", "r", "e", "n", "t", "_", "n", "a", "m", "e",
    "\"", ":", "\"", "a", "\"", "}", " ", "x">>
\* an object that is cut off
req_unclosed ==
    <<"{", "\"", "t", "o", "r", "r", "e", "n", "t", "_", "n", "a", "m", "e",
    "\"", ":", "\"", "a", "\"">>
\* a number where the field is a string
req_number ==
    <<"{", "\"", "t", "o", "r", "r", "e", "n", "t", "_", "n", "a", "m", "e",
    "\"", ":", "1", "}">>
\* no body at all
req_none == <<>>
\* webhook templates: both verbs, one verb, three verbs
tpl_torrent == <<"%", "s", " ", "i", "n", " ", "%", "s">>
tpl_name == <<"D", "o", "n", "e", ":", " ", "%", "s">>
tpl_three == <<"%", "s", " ", "%", "s", " ", "%", "s">>

RequestBodies ==
    { req_full, req_object, req_null, req_trailing, req_unclosed, req_number, req_none }

\* models.TorrentNotification
TorrentNotification(name, path) == [TorrentName |-> name, SavePath |-> path]

\* json.NewDecoder(r.Body).Decode(&notification) on the request bodies of
\* this model: the first JSON value of the body is decoded, null and absent
\* fields leave the zero value, text behind the first value is not read
Decode(body) ==
    CASE body = req_full     -> [ok |-> TRUE,  v |-> TorrentNotification(s_a, s_b)]
      [] body = req_object   -> [ok |-> TRUE,  v |-> TorrentNotification(<<>>, <<>>)]
      [] body = req_null     -> [ok |-> TRUE,  v |-> TorrentNotification(<<>>, <<>>)]
      [] body = req_trailing -> [ok |-> TRUE,  v |-> TorrentNotification(s_a, <<>>)]
      [] body = req_unclosed -> [ok |-> FALSE, v |-> TorrentNotification(s_a, <<>>)]
      [] body = req_number   -> [ok |-> FALSE, v |-> TorrentNotification(<<>>, <<>>)]
      [] body = req_none     -> [ok |-> FALSE, v |-> TorrentNotification(<<>>, <<>>)]

\* fmt.Sprintf(format, args...) with string arguments: an argument per %s,
\* %!s(MISSING) past the last one, the arguments left over in %!(EXTRA ...)
RECURSIVE fmt_ExtraArgs(_, _)
fmt_ExtraArgs(args, n) ==
    IF n > Len(args) THEN <<")">>
    ELSE <<"s", "t", "r", "i", "n", "g", "=">> \o args[n]
             \o (IF n < Len(args) THEN <<",", " ">> ELSE <<>>)
             \o fmt_ExtraArgs(args, n + 1)

RECURSIVE doPrintfArgs(_, _, _, _)
doPrintfArgs(format, i, args, n) ==
    IF i > Len(format)
    THEN IF n > Len(args) THEN <<>>
         ELSE <<"%", "!", "(", "E", "X", "T", "R", "A", " ">> \o fmt_ExtraArgs(args, n)
    ELSE IF format[i] # "%" THEN <<format[i]>> \o doPrintfArgs(format, i + 1, args, n)
    ELSE IF i = Len(format) THEN fmt_NOVERB \o doPrintfArgs(format, i + 1, args, n)
    ELSE IF format[i + 1] = "%" THEN <<"%">> \o doPrintfArgs(format, i + 2, args, n)
    ELSE IF n > Len(args) THEN fmt_MISSING \o doPrintfArgs(format, i + 2, args, n)
    ELSE args[n] \o doPrintfArgs(format, i + 2, args, n + 1)

SprintfArgs(format, args) == doPrintfArgs(format, 1, args, 1)

\* config.WebhookConfig and its config.WebhookProcessorConfig
WebhookConfig(name, chatID, message) ==
    [Name |-> name, Config |-> [TelegramChatID |-> chatID, TelegramMessage |-> message]]

NoConfig == [TelegramChatID |-> "", TelegramMessage |-> <<>>]

\* GetWebhookConfig: the configuration of the first hook of that name, found
\* FALSE standing for the nil it returns when there is none
RECURSIVE GetWebhookConfig(_, _, _)
GetWebhookConfig(hooks, webhookName, i) ==
    IF i > Len(hooks) THEN [found |-> FALSE, config |-> NoConfig]
    ELSE IF hooks[i].Name = webhookName THEN [found |-> TRUE, config |-> hooks[i].Config]
    ELSE GetWebhookConfig(hooks, webhookName, i + 1)

\* one telegram.SendMessage call as its caller sees it: the arguments and
\* the error it reported ("nil" or "err")
SendCall(chatID, message, reported) ==
    [chatID |-> chatID, message |-> message, reported |-> reported]

\* mutant: Process sends once more when the first SendMessage fails
TorrentProcessor_ProcessRetrying(config, notification, reported) ==
    LET message == SprintfArgs(config.TelegramMessage,
                               <<notification.TorrentName, notification.SavePath>>)
        first == SendCall(config.TelegramChatID, message, reported)
    IN [calls |-> IF reported = "nil" THEN <<first>> ELSE <<first, first>>,
        returned |-> reported]

\* TorrentProcessor.Process: format, one SendMessage, its error returned
TorrentProcessor_Process(config, notification, reported) ==
    LET message == SprintfArgs(config.TelegramMessage,
                               <<notification.TorrentName, notification.SavePath>>)
    IN [calls |-> <<SendCall(config.TelegramChatID, message, reported)>>,
        returned |-> reported]

\* what the handler wrote to the http.ResponseWriter
Response(status, contentType, body) ==
    [status |-> status, contentType |-> contentType, body |-> body]

\* http.Error(w, msg, code)
Error(msg, code) == Response(code, "text/plain; charset=utf-8", msg \o "\n")

StatusOK == 200
StatusBadRequest == 400
StatusInternalServerError == 500

NoResponse == Response(0, "", "")

\* the handler's state: cfg.Hook, the body of the request being answered,
\* the response, whether Process was called, the SendMessage calls it made
\* and the error it returned ("none" when it was not called)
HookState(hooks, hpc, body, resp, processed, calls, returned) ==
    [hooks |-> hooks, pc |-> hpc, body |-> body, resp |-> resp,
     processed |-> processed, calls |-> calls, returned |-> returned]

HookFrame ==
    UNCHANGED <<processors, pollVars, batchVars, matchVars, sendVars, genVars, mgr, ep, fp, tk>>

\* HandleTorrentComplete on a request with this body; reported is what
\* SendMessage reports if it is called
HandleTorrentComplete ==
    /\ hook # <<>>
    /\ hook.pc = "idle"
    /\ \E body \in RequestBodies, reported \in {"nil", "err"} :
         LET d == Decode(body)
             c == GetWebhookConfig(hook.hooks, "qbittorrent", 1)
             r == TorrentProcessor_Process(c.config, d.v, reported)
         IN hook' =
              IF ~d.ok
              THEN HookState(hook.hooks, "responded", body,
                             Error("Invalid request", StatusBadRequest),
                             FALSE, <<>>, "none")
              ELSE IF ~c.found
              THEN HookState(hook.hooks, "responded", body,
                             Error("Webhook configuration not found",
                                   StatusInternalServerError),
                             FALSE, <<>>, "none")
              ELSE IF r.returned # "nil"
              THEN HookState(hook.hooks, "responded", body,
                             Error("Processing failed", StatusInternalServerError),
                             TRUE, r.calls, r.returned)
              ELSE HookState(hook.hooks, "responded", body,
                             Response(StatusOK, "application/json",
                                      "{\"status\":\"success\"}\n"),
                             TRUE, r.calls, r.returned)
    /\ HookFrame

\* the server takes the next request
NextRequest ==
    /\ hook # <<>>
    /\ hook.pc = "responded"
    /\ hook' = HookState(hook.hooks, "idle", <<>>, NoResponse, FALSE, <<>>, "none")
    /\ HookFrame

\* cfg.Hook as configured
HookPool ==
    { WebhookConfig("sonarr", "7", tpl_name),
      WebhookConfig("qbittorrent", "42", tpl_torrent),
      WebhookConfig("qbittorrent", "42", tpl_name),
      WebhookConfig("qbittorrent", "43", tpl_three) }

HookUnused ==
    /\ processors = <<>>
    /\ cancelled = FALSE
    /\ PollUnused
    /\ bemails = <<>>
    /\ bpc = "unused"
    /\ bnext = 1
    /\ wg = 0
    /\ workers = <<>>
    /\ blog = <<>>
    /\ MatchUnused
    /\ SendUnused
    /\ GenUnused
    /\ mgr = <<>>

InitWebhook ==
    /\ HookUnused
    /\ \E hooks \in SeqsUpTo(HookPool, MaxHooks) :
         hook = HookState(hooks, "idle", <<>>, NoResponse, FALSE, <<>>, "none")
    /\ ep = <<>>
    /\ fp = <<>>
    /\ tk = <<>>

NextWebhook == HandleTorrentComplete \/ NextRequest

SpecWebhook == InitWebhook /\ [][NextWebhook]_vars

\* the response is a JSON status object
JSONStatus(resp) ==
    /\ resp.contentType = "application/json"
    /\ resp.body \in {"{\"status\":\"success\"}\n", "{\"status\":\"error\"}\n"}

\* C22: the handler answers every request with a JSON status object: 2xx
\* when the notification was delivered, 4xx when the body cannot be decoded,
\* 5xx when delivery fails; a malformed request leads to no notification
C22_JSONStatusForEveryRequest ==
    (hook.pc = "responded") =>
        /\ JSONStatus(hook.resp)
        /\ ~Decode(hook.body).ok =>
               hook.resp.status \in 400..499 /\ hook.calls = <<>>
        /\ (hook.processed /\ hook.returned = "nil") => hook.resp.status \in 200..299
        /\ (hook.processed /\ hook.returned # "nil") => hook.resp.status \in 500..599

----------------------------------------------------------------------------
(* GenericEmailProcessor as generic.go has it: one resolved pattern run on
   the decoded text, no marker and no header stripping *)
\* the sentinel of generic.go
NoEncontrado ==
    <<"N", "o", " ", "e", "n", "c", "o", "n", "t", "r", "a", "d", "o">>

\* `\b\d{6}\b`, the pattern of "cloudflare" and of "perplexity" alike
reSixDigits == Regexp(<<Alt(TRUE, <<Atom(Digits, 6, 6)>>, TRUE)>>)

\* processor.defaultPatterns of generic.go
defaultPatterns_generic(key) ==
    CASE key = cloudflare  -> reSixDigits
      [] key = perplexity  -> reSixDigits
      [] key = key_default -> reDefault

\* config.ServiceProcessorConfig
ServiceProcessorConfig(from, subjects, chatID, pattern, template) ==
    [EmailFrom |-> from, EmailSubject |-> subjects, TelegramChatID |-> chatID,
     CodePattern |-> pattern, TelegramMessage |-> template]

\* mutant: only a custom pattern is ever resolved
Resolve_genericCustomOnly(name, custom) == custom

\* NewGenericEmailProcessor of generic.go: the pattern left in
\* processor.codePattern, given what the custom pattern compiled to
Resolve_generic(name, custom) ==
    IF custom # NilPattern THEN custom
    ELSE IF ToLower(name) \in DefaultKeys THEN defaultPatterns_generic(ToLower(name))
    ELSE defaultPatterns_generic(key_default)

NewGenericEmailProcessor_generic(name, config) ==
    LET given  == config.CodePattern # <<>>
        custom == IF given /\ Compile(config.CodePattern).ok
                  THEN Compile(config.CodePattern).re ELSE NilPattern
    IN [name |-> name, config |-> config, codePattern |-> Resolve_generic(name, custom)]

\* ShouldProcess of generic.go
ShouldProcess_generic(p, email) ==
    ShouldProcess(Processor(p.name, TRUE, p.config.EmailFrom, p.config.EmailSubject), email)

\* extractCode of generic.go
extractCode_generic(p, text) ==
    LET m == FindStringSubmatch(p.codePattern, text)
    IN IF m.found THEN m.match ELSE NoEncontrado

\* Process of generic.go: decode, extract, format, one SendMessage, whose
\* error is returned
Process_generic(p, email, reported) ==
    LET decodedText == decodeQuotedPrintable(email.TextPlain)
        code == extractCode_generic(p, decodedText)
        message == Sprintf(p.config.TelegramMessage, code)
    IN [decoded |-> decodedText, code |-> code,
        calls |-> <<SendCall(p.config.TelegramChatID, message, reported)>>,
        returned |-> reported]

\* the processor under test and its last calls: the email at hand, the
\* result of ShouldProcess on it ("none" before the call), and of Process
\* the decoded text, the code, the SendMessage calls and the returned error
EpState(p, epc, email, matched, decoded, code, calls, returned) ==
    [p |-> p, pc |-> epc, email |-> email, matched |-> matched,
     decoded |-> decoded, code |-> code, calls |-> calls, returned |-> returned]

\* models.Email
Email(m, text) ==
    [From |-> parseMessage(m).From, Subject |-> parseMessage(m).Subject,
     TextPlain |-> text]

EpFrame ==
    UNCHANGED <<processors, pollVars, batchVars, matchVars, sendVars, genVars, mgr, hook, fp, tk>>

\* NewGenericEmailProcessor is called with the configured name and service
EpNew ==
    /\ ep # <<>>
    /\ ep.pc = "new"
    /\ ep' = [ep EXCEPT !.p = NewGenericEmailProcessor_generic(ep.p.name, ep.p.config),
                        !.pc = "ready"]
    /\ EpFrame

\* ShouldProcess(email)
EpShouldProcess ==
    /\ ep # <<>>
    /\ ep.pc \in {"ready", "done"}
    /\ ep.matched = "none"
    /\ ep' = [ep EXCEPT !.matched =
                 IF ShouldProcess_generic(ep.p, ep.email) THEN "true" ELSE "false"]
    /\ EpFrame

\* Process(email); reported is what telegram.SendMessage reports
EpProcess ==
    /\ ep # <<>>
    /\ ep.pc = "ready"
    /\ \E reported \in {"nil", "err"} :
         LET r == Process_generic(ep.p, ep.email, reported)
         IN ep' = [ep EXCEPT !.pc = "done", !.decoded = r.decoded, !.code = r.code,
                             !.calls = r.calls, !.returned = r.returned]
    /\ EpFrame

\* the caller turns to the next message
EpNextEmail ==
    /\ ep # <<>>
    /\ ep.pc = "done"
    /\ \E m \in Msgs, text \in GenTexts :
         ep' = EpState(ep.p, "ready", Email(m, text), "none", <<>>, <<>>, <<>>, "none")
    /\ EpFrame

InitEmailProcessor ==
    /\ HookUnused
    /\ hook = <<>>
    /\ fp = <<>>
    /\ tk = <<>>
    /\ \E n \in GenNames, pat \in GenPatterns, tpl \in GenTemplates,
          m \in Msgs, text \in GenTexts :
         ep = EpState([name |-> n,
                       config |-> ServiceProcessorConfig(s_a, <<s_x>>, "42", pat, tpl),
                       codePattern |-> NilPattern],
                      "new", Email(m, text), "none", <<>>, <<>>, <<>>, "none")

NextEmailProcessor == EpNew \/ EpShouldProcess \/ EpProcess \/ EpNextEmail

\* the processors of both paths: of the mailbox and of the webhook
InitProcessors == InitEmailProcessor \/ InitWebhook
NextProcessors == NextEmailProcessor \/ NextWebhook
SpecProcessors == InitProcessors /\ [][NextProcessors]_vars

\* C23: the Processor does no retry of its own: each Process call, of the
\* email processor and of the webhook processor alike, makes exactly one
\* SendMessage call and returns exactly what that call reported
C23_OneSendPerProcess ==
    /\ (ep # <<>> /\ ep.pc = "done") =>
           Len(ep.calls) = 1 /\ ep.returned = ep.calls[1].reported
    /\ (hook # <<>> /\ hook.processed) =>
           Len(hook.calls) = 1 /\ hook.returned = hook.calls[1].reported

\* a Process call of the email processor has returned the error of its one
\* SendMessage call
C23_Witness ==
    /\ ep # <<>>
    /\ ep.pc = "done"
    /\ ep.calls # <<>>
    /\ ep.returned = "err"

\* C27: a constructed processor has one resolved pattern, never nil, fixed
\* at construction: no ShouldProcess or Process call changes it
C27_PatternFixedAtConstruction ==
    [][(ep # <<>> /\ ep.pc # "new") =>
           /\ ep.p.codePattern # NilPattern
           /\ ep'.p.codePattern = ep.p.codePattern]_vars

\* a processor whose custom pattern did not compile has gone through
\* ShouldProcess and Process with the built-in generic pattern
C27_Witness ==
    /\ ep # <<>>
    /\ ep.pc = "done"
    /\ ep.matched # "none"
    /\ ep.p.config.CodePattern = src_unclosed
    /\ ep.p.codePattern = reDefault

\* the first match of re in s, the sentinel of generic.go when there is none
FirstMatchOrNoEncontrado(re, s) ==
    IF FindStringSubmatch(re, s).found THEN FindStringSubmatch(re, s).match
    ELSE NoEncontrado

\* C28: content decoding never aborts Process: when the body does not
\* decode, and when it holds no "=", extraction runs on the body as it came,
\* and every Process call formats the template and calls the notifier
C28_DecodingNeverAborts ==
    (ep # <<>> /\ ep.pc = "done") =>
        /\ Len(ep.calls) = 1
        /\ ep.calls[1].message = Formatted(ep.p.config.TelegramMessage, ep.code)
        /\ (~Contains(ep.email.TextPlain, <<"=">>) \/ QPReadAll(ep.email.TextPlain).err) =>
               /\ ep.decoded = ep.email.TextPlain
               /\ ep.code = FirstMatchOrNoEncontrado(ep.p.codePattern, ep.email.TextPlain)

\* a body whose decoding fails was processed and a code was found in the
\* body as it came
C28_Witness ==
    /\ ep # <<>>
    /\ ep.pc = "done"
    /\ Contains(ep.email.TextPlain, <<"=">>)
    /\ QPReadAll(ep.email.TextPlain).err
    /\ ep.code # NoEncontrado
    /\ Len(ep.calls) = 1

----------------------------------------------------------------------------
(* fetchAndProcessMessages step by step: the goroutine that runs Fetch and
   the range loop that receives and calls processMessage *)
\* mutant: the messages channel holds one message
CapacityOne(found) == 1

\* "messages := make(chan *imap.Message, len(ids))"
Capacity(found) == Cardinality(found)

\* the call's state: the messages Fetch has still to stream, the messages
\* channel and its capacity, the producer goroutine ("running" in Fetch,
\* "closed" when Fetch has closed the channel and returned err, "exited"
\* after its send on done), the contents of the done channel ("empty",
\* "ok", "err"), the messages in the order Fetch sent them, the messages
\* between the start of processMessage and its return, those whose
\* processMessage has started, in order, what each finished processMessage
\* did, and the consumer's position ("loop", "waitDone", "returned")
FetchState(pend, ch, producer, result, sent, busy, started, ended, fpc) ==
    [pending |-> pend, ch |-> ch, cap |-> Capacity(pend), prod |-> producer,
     err |-> "none", done |-> result,
     sent |-> sent, busy |-> busy, started |-> started, ended |-> ended, pc |-> fpc]

FpFrame ==
    UNCHANGED <<processors, pollVars, batchVars, matchVars, sendVars, genVars,
                mgr, hook, ep, tk>>

\* imapClient.Fetch sends a message of the set on the channel; the send
\* waits while the channel is full
FpSend ==
    /\ fp # <<>>
    /\ fp.prod = "running"
    /\ Len(fp.ch) < fp.cap
    /\ \E m \in fp.pending :
         fp' = [fp EXCEPT !.pending = @ \ {m}, !.ch = Append(@, m),
                          !.sent = Append(@, m)]
    /\ FpFrame

\* Fetch closes the channel and returns, nil only when every message was sent
FpClose ==
    /\ fp # <<>>
    /\ fp.prod = "running"
    /\ \E ok \in BOOLEAN :
         /\ ok => fp.pending = {}
         /\ fp' = [fp EXCEPT !.prod = "closed", !.pending = {},
                             !.err = IF ok THEN "ok" ELSE "err"]
    /\ FpFrame

\* "done <- imapClient.Fetch(...)": the goroutine sends what Fetch returned
\* on done, which holds one value, and exits
FpResult ==
    /\ fp # <<>>
    /\ fp.prod = "closed"
    /\ fp.done = "empty"
    /\ fp' = [fp EXCEPT !.prod = "exited", !.done = fp.err]
    /\ FpFrame

\* mutant: the loop hands each message to a goroutine of its own
LoopReceivesAlways(busy) == TRUE

\* "for msg := range messages": the loop receives again only after
\* processMessage has returned
LoopReceives(busy) == busy = {}

\* mutant: the newest message of the channel is received
RecvNewest(ch) == [msg |-> ch[Len(ch)], rest |-> SubSeq(ch, 1, Len(ch) - 1)]

\* a receive from the channel: first in, first out
Recv(ch) == [msg |-> Head(ch), rest |-> Tail(ch)]

\* the loop receives a message and calls processMessage
FpBegin ==
    /\ fp # <<>>
    /\ fp.pc = "loop"
    /\ LoopReceives(fp.busy)
    /\ fp.ch # <<>>
    /\ fp' = [fp EXCEPT !.ch = Recv(fp.ch).rest,
                        !.busy = @ \cup {Recv(fp.ch).msg},
                        !.started = Append(@, Recv(fp.ch).msg)]
    /\ FpFrame

\* processMessage returns, handlePostProcessing included: sendOk is what
\* Process reports; the record says which processor handled the message
\* and whether markAsRead was called
FpEnd ==
    /\ fp # <<>>
    /\ \E m \in fp.busy, sendOk \in BOOLEAN :
         LET r == processMessage(processors, parseMessage(m), 1, sendOk)
             mark == IF r.handled = 0 THEN FALSE
                     ELSE handlePostProcessing(processors[r.handled])
         IN fp' = [fp EXCEPT !.busy = @ \ {m},
                             !.ended = Append(@, [msg |-> m, handled |-> r.handled,
                                                  marked |-> mark])]
    /\ FpFrame

\* the channel is closed and drained: the range loop ends
FpLoopEnd ==
    /\ fp # <<>>
    /\ fp.pc = "loop"
    /\ LoopReceives(fp.busy)
    /\ fp.ch = <<>>
    /\ fp.prod # "running"
    /\ fp' = [fp EXCEPT !.pc = "waitDone"]
    /\ FpFrame

\* "<-done": the result is received and fetchAndProcessMessages returns
FpReturn ==
    /\ fp # <<>>
    /\ fp.pc = "waitDone"
    /\ fp.done # "empty"
    /\ fp' = [fp EXCEPT !.pc = "returned", !.done = "empty"]
    /\ FpFrame

\* fetchAndProcessMessages is called with the identifiers a search found
InitFetch ==
    /\ processors \in { q \in ProcLists : Len(q) = 1 }
    /\ cancelled = FALSE
    /\ PollUnused
    /\ bemails = <<>>
    /\ bpc = "unused"
    /\ bnext = 1
    /\ wg = 0
    /\ workers = <<>>
    /\ blog = <<>>
    /\ MatchUnused
    /\ SendUnused
    /\ GenUnused
    /\ mgr = <<>>
    /\ hook = <<>>
    /\ ep = <<>>
    /\ tk = <<>>
    /\ \E found \in SUBSET Msgs :
         fp = FetchState(found, <<>>, "running", "empty", <<>>, {}, <<>>, <<>>, "loop")

NextFetch == FpSend \/ FpClose \/ FpResult \/ FpBegin \/ FpEnd \/ FpLoopEnd \/ FpReturn

SpecFetch == InitFetch /\ [][NextFetch]_vars

\* q is a prefix of s
IsPrefix(q, s) == Len(q) <= Len(s) /\ SubSeq(s, 1, Len(q)) = q

\* C24: within a tick processing is sequential: at most one message is
\* between the start of its dispatch and the end of its post-processing,
\* and messages are dispatched in the order Fetch delivers them
C24_SequentialInDeliveryOrder ==
    /\ Cardinality(fp.busy) <= 1
    /\ IsPrefix(fp.started, fp.sent)
    /\ IsPrefix([k \in 1..Len(fp.ended) |-> fp.ended[k].msg], fp.started)

\* a second message is in dispatch after the first was handled and marked
\* read, while Fetch is still running
C24_Witness ==
    /\ Len(fp.started) = 2
    /\ fp.busy # {}
    /\ fp.prod = "running"
    /\ Len(fp.ended) = 1
    /\ fp.ended[1].marked

----------------------------------------------------------------------------
(* Header stripping and the marker window of the GenericEmailProcessor of
   torrent.go *)
\* the index behind the first blank line of s, be it LF-LF or CRLF-CRLF,
\* whichever begins first; -1 when s has none
FirstBlankLineEnd(s) ==
    LET lf   == Index(s, LFLF)
        crlf == Index(s, CRLFCRLF)
    IN IF lf = -1 /\ crlf = -1 THEN -1
       ELSE IF crlf = -1 \/ (lf # -1 /\ lf < crlf) THEN lf + Len(LFLF)
       ELSE crlf + Len(CRLFCRLF)

\* C25: header stripping returns the text behind the first blank line of
\* the decoded text, LF-LF or CRLF-CRLF, whichever occurs earliest, and the
\* text itself when there is none; for the processor named cloudflare, in
\* any letter case, the body is the text unstripped
C25_StripsAtFirstBlankLine ==
    gpc \in {"done", "panicked"} =>
        LET text == decodeQuotedPrintable(gText)
        IN gBody = IF ToLower(gp.name) = cloudflare \/ FirstBlankLineEnd(text) = -1
                   THEN text
                   ELSE SliceFrom(text, FirstBlankLineEnd(text))

\* the index of the first occurrence of marker in s, letter case aside
FoldIndex(s, marker) ==
    IF OccursFold(s, marker)
    THEN CHOOSE i \in 0..(Len(s) - Len(marker)) :
            /\ \A j \in 1..Len(marker) : LowerChar(s[i + j]) = marker[j]
            /\ \A h \in 0..(i - 1) :
                  \E j \in 1..Len(marker) : LowerChar(s[h + j]) # marker[j]
    ELSE -1

\* the text of s behind its marker
Window(s) ==
    IF OccursFold(s, marker_directly)
    THEN SliceFrom(s, FoldIndex(s, marker_directly) + Len(marker_directly))
    ELSE SliceFrom(s, FoldIndex(s, marker_directamente) + Len(marker_directamente))

\* C26: with a marker in the body, marker-gated extraction searches the text
\* behind the marker only and returns the first match of the first of the
\* numeric, the hyphenated and the resolved pattern that matches there, the
\* sentinel only when none of the three does
C26_FirstCandidateInWindow ==
    (gpc \in {"done", "panicked"} /\ MarkerGated
        /\ (OccursFold(gBody, marker_directly) \/ OccursFold(gBody, marker_directamente))) =>
        /\ gpc = "done"
        /\ gCode =
             IF FindStringSubmatch(numericPattern, Window(gBody)).found
             THEN FindStringSubmatch(numericPattern, Window(gBody)).match
             ELSE IF FindStringSubmatch(alphanumericPattern, Window(gBody)).found
             THEN FindStringSubmatch(alphanumericPattern, Window(gBody)).match
             ELSE FirstMatchOr(gp.codePattern, Window(gBody))

----------------------------------------------------------------------------
----------------------------------------------------------------------------
(* Mark-as-read *)
\* the step issues a STORE
Stores == Len(cmds') = Len(cmds) + 1 /\ cmds'[Len(cmds')].cmd = "STORE"

\* C30: a mark-as-read changes only the Seen flag of the one message that
\* was just processed successfully: the STORE names that message's sequence
\* number and the flags of every other message stay as they are
C30_StoreTouchesProcessedMessageOnly ==
    [][Stores =>
          /\ Len(disp') = Len(disp) + 1
          /\ disp'[Len(disp')].ok
          /\ cmds'[Len(cmds')].arg = disp'[Len(disp')].msg
          /\ \A m \in Msgs \ {disp'[Len(disp')].msg} : seen'[m] = seen[m]]_vars

\* a message was marked read by a successful STORE while another message,
\* dispatched in the same tick, is still unread
C30_Witness ==
    /\ \E k \in 1..Len(cmds) :
          cmds[k].cmd = "STORE" /\ cmds[k].ok /\ seen[cmds[k].arg]
    /\ \E j \in 1..Len(disp) : ~seen[disp[j].msg]

----------------------------------------------------------------------------
(* Session lifetime of one tick: checkEmails, connectAndLogin, logout *)

\* the tick has returned to the select of StartMonitoring
TickReturned == pc = "none" /\ tickOutcome \in {"aborted", "completed"}

\* client.DialTLS succeeded in this tick
Connected == Issued("DIAL") # {} /\ Failed("DIAL") = {}

\* C31: a tick that established a connection ends with exactly one logout
\* attempt on that session, whatever made it return (login, select, search
\* or fetch failure, empty search result, normal completion), and a tick
\* whose connect failed attempts none; no session is logged out twice and
\* none is left open when the tick returns
C31_OneLogoutPerSession ==
    /\ Cardinality(Issued("LOGOUT")) <= 1
    /\ TickReturned =>
          IF Connected
          THEN /\ Cardinality(Issued("LOGOUT")) = 1
               /\ cmds[Len(cmds)].cmd = "LOGOUT"
               /\ sess = "loggedout"
          ELSE /\ Issued("LOGOUT") = {}
               /\ Failed("DIAL") # {}
               /\ sess = "none"
    /\ ~TickReturned /\ pc # "none" => Issued("LOGOUT") = {}

\* C31 witness: a tick aborted by a fetch error after a message was
\* dispatched, logged out once
C31_Witness ==
    /\ TickReturned
    /\ failedAt = "fetch"
    /\ disp # <<>>
    /\ Cardinality(Issued("LOGOUT")) = 1

\* every command of the tick succeeded
AllStepsOk == \A i \in 1..Len(cmds) : cmds[i].ok

Dispatched == { disp[k].msg : k \in 1..Len(disp) }

\* C32 (as claimed): in a tick whose session steps and searches all succeed,
\* every message that was unread and that some configured processor's
\* ShouldProcess accepts is fetched and dispatched in that tick, also when
\* its only matching processor has an empty sender filter while other
\* processors have one
C32_EveryMatchedUnreadDispatched ==
    (TickReturned /\ tickOutcome = "completed" /\ AllStepsOk) =>
        \A m \in Msgs : (UnreadAtTickStart(m) /\ ~NoMatch(m)) => m \in Dispatched

----------------------------------------------------------------------------
(* The poll loop tick by tick, without the ticker and without the producer
   goroutine: checkEmails runs the session up to the Fetch, then the
   consumer loop takes the delivered messages one by one, and every Process
   call runs SendMessage to its return. tk.chat[i] is the TelegramChatID of
   processors[i]; tk.last[m] is what became of message m in the latest
   earlier tick that dispatched it; tk.queue holds the messages Fetch
   delivers and tk.fetchOk what Fetch returns. cmds, disp, ids, tickOutcome
   and failedAt describe the tick in progress or just returned. *)

\* the configured chat id of each processor: the one of perplexity does not
\* parse as an integer, the others do
TelegramChatID(p) ==
    IF p.hasName /\ p.name = perplexity THEN <<"4", "x">> ELSE <<"4", "2">>

\* what the successive c.bot.Send calls of one SendMessage answer, 0 for
\* nil: every call succeeds or every call fails
BotAnswers == { [n \in 1..maxRetries |-> 0], [n \in 1..maxRetries |-> 1] }

\* the retry loop of SendMessage from attempt n on
RECURSIVE SendLoop(_, _, _, _)
SendLoop(answers, n, sent, slept) ==
    IF n > maxRetries THEN [sent |-> sent, slept |-> slept, ok |-> FALSE]
    ELSE IF answers[n] = 0
         THEN [sent |-> Append(sent, 0), slept |-> slept, ok |-> TRUE]
         ELSE SendLoop(answers, n + 1, Append(sent, answers[n]),
                       IF n < maxRetries THEN Append(slept, Backoff(n)) ELSE slept)

\* mutant: the chat id is not parsed before the first attempt
SendMessageUnparsed(chatID, answers) == SendLoop(answers, 1, <<>>, <<>>)

\* Client.SendMessage run to its return: the Send calls made, the sleeps
\* made and whether nil was returned
SendMessage(chatID, answers) ==
    IF ~parseInt64(chatID) THEN [sent |-> <<>>, slept |-> <<>>, ok |-> FALSE]
    ELSE SendLoop(answers, 1, <<>>, <<>>)

\* the dispatch record of one consumed message
Dispatch(m, r, run, mark) ==
    [msg |-> m, consulted |-> r.consulted, invoked |-> r.invoked, ok |-> run.ok,
     stored |-> mark, sent |-> run.sent, slept |-> run.slept]

NoRun == [sent |-> <<>>, slept |-> <<>>, ok |-> FALSE]

\* processMessage on message m with the mailbox flags as they are: the
\* record, the STORE command if one is issued, and the flags afterwards,
\* for every answer of the bot and of the server
DispatchResults(m, flags) ==
    LET email == parseMessage(m)
        match == processMessage(processors, email, 1, TRUE)
    IN IF match.invoked = <<>>
       THEN { [rec |-> Dispatch(m, match, NoRun, FALSE), log |-> <<>>, flags |-> flags] }
       ELSE UNION {
              LET r    == processMessage(processors, email, 1, run.ok)
                  mark == IF r.handled = 0 THEN FALSE
                          ELSE handlePostProcessing(processors[r.handled])
              IN { [rec |-> Dispatch(m, r, run, mark),
                    log |-> IF mark THEN <<Cmd("STORE", storeOk, m)>> ELSE <<>>,
                    flags |-> IF mark /\ storeOk THEN markAsRead(flags, m) ELSE flags] :
                   storeOk \in IF mark THEN BOOLEAN ELSE {TRUE} } :
              run \in { SendMessage(tk.chat[match.invoked[1]], a) : a \in BotAnswers } }

\* mutant: a failed STORE ends the loop over the fetched messages
RemainingUnlessStoreFailed(queue, d) ==
    IF \E i \in 1..Len(d.log) : ~d.log[i].ok THEN <<>> ELSE Tail(queue)

\* "for msg := range messages": processMessage returns nothing, the loop
\* goes on to the next message whatever happened to this one
Remaining(queue, d) == Tail(queue)

RECURSIVE Ascending(_)
Ascending(S) == IF S = {} THEN <<>> ELSE <<Min(S)>> \o Ascending(S \ {Min(S)})

\* how far checkEmails got before the consumer loop: the commands so far,
\* the identifiers found, and either the tick's end or the Fetch under way
SessionEnd(log, outcome, failed, s) ==
    [cmds |-> log, ids |-> {}, fetching |-> FALSE, queue |-> <<>>, fetchOk |-> TRUE,
     outcome |-> outcome, failedAt |-> failed, sess |-> s]

\* fetchAndProcessMessages: Fetch streams the first d messages in ascending
\* order and then returns, nil only when it streamed them all
FetchResults(found, log) ==
    { [cmds |-> Append(log, Cmd("FETCH", TRUE, 0)), ids |-> found, fetching |-> TRUE,
       queue |-> SubSeq(Ascending(found), 1, c[1]), fetchOk |-> c[2],
       outcome |-> "running", failedAt |-> "none", sess |-> "selected"] :
      c \in { x \in (0..Cardinality(found)) \X BOOLEAN : x[2] => x[1] = Cardinality(found) } }

\* checkEmails after searchUnreadEmails returned found without error
FoundResults(found, log) ==
    IF found = {}
    THEN { SessionEnd(Logout(log), "completed", "none", "loggedout") }
    ELSE FetchResults(found, log)

\* searchUnreadEmails with senders, from sender i on
RECURSIVE SenderResults(_, _, _)
SenderResults(i, found, log) ==
    IF i > Len(Senders) THEN FoundResults(found, log)
    ELSE UNION { SenderResults(i + 1,
                     IF ok THEN AddIDs(found, SearchUnseenFrom(Senders[i])) ELSE found,
                     Append(log, Cmd("SEARCH", ok, i))) : ok \in BOOLEAN }

\* searchUnreadEmails and what follows it
SearchResults(log) ==
    IF Len(Senders) = 0
    THEN FoundResults(SearchUnseen, Append(log, Cmd("SEARCH", TRUE, 0)))
         \cup { SessionEnd(Logout(Append(log, Cmd("SEARCH", FALSE, 0))),
                           "aborted", "search", "loggedout") }
    ELSE SenderResults(1, {}, log)

\* connectAndLogin and what follows it
SessionResults ==
    LET dialled  == <<Cmd("DIAL", TRUE, 0)>>
        loggedIn == Append(dialled, Cmd("LOGIN", TRUE, 0))
    IN { SessionEnd(<<Cmd("DIAL", FALSE, 0)>>, "aborted", "connect", "none"),
         SessionEnd(Logout(Append(dialled, Cmd("LOGIN", FALSE, 0))),
                    "aborted", "login", "loggedout"),
         SessionEnd(Logout(Append(loggedIn, Cmd("SELECT", FALSE, 0))),
                    "aborted", "select", "loggedout") }
       \cup SearchResults(Append(loggedIn, Cmd("SELECT", TRUE, 0)))

\* what became of a dispatched message: no processor matched, Process
\* failed, it was notified and left alone, or notified and the STORE
\* failed or succeeded
Became(rec, log) ==
    IF rec.invoked = <<>> THEN "unmatched"
    ELSE IF ~rec.ok THEN "failed"
    ELSE IF ~rec.stored THEN "notified"
    ELSE IF \E i \in 1..Len(log) : log[i] = Cmd("STORE", TRUE, rec.msg) THEN "stored"
    ELSE "storeFailed"

\* the latest dispatch of each message, the tick just returned included
Remember(last, records, log) ==
    [m \in Msgs |->
        IF \E k \in 1..Len(records) : records[k].msg = m
        THEN Became(records[CHOOSE k \in 1..Len(records) : records[k].msg = m], log)
        ELSE last[m]]

TickFrame ==
    /\ UNCHANGED <<cancelled, tickerC, loop, running, pc, searchIdx, pending, prod,
                   messages, done, cancelAtEntry>>
    /\ UNCHANGED <<processors, batchVars, matchVars, sendVars, genVars, mgr, hook, ep, fp>>

\* the ticker fires: checkEmails from the dial to the start of the Fetch,
\* or to its return when the session fails or nothing is found
checkEmails ==
    /\ tk # <<>>
    /\ tk.pc = "idle"
    /\ \E r \in SessionResults :
         /\ cmds' = r.cmds
         /\ ids' = r.ids
         /\ tickOutcome' = r.outcome
         /\ failedAt' = r.failedAt
         /\ sess' = r.sess
         /\ tk' = [tk EXCEPT !.last = Remember(tk.last, disp, cmds),
                             !.pc = IF r.fetching THEN "consume" ELSE "idle",
                             !.queue = r.queue,
                             !.fetchOk = r.fetchOk]
    /\ disp' = <<>>
    /\ UNCHANGED seen
    /\ TickFrame

\* the consumer loop of fetchAndProcessMessages takes the next message
fetchAndProcessMessages ==
    /\ tk # <<>>
    /\ tk.pc = "consume"
    /\ tk.queue # <<>>
    /\ \E d \in DispatchResults(Head(tk.queue), seen) :
         /\ disp' = Append(disp, d.rec)
         /\ cmds' = cmds \o d.log
         /\ seen' = d.flags
         /\ tk' = [tk EXCEPT !.queue = Remaining(tk.queue, d)]
    /\ UNCHANGED <<ids, tickOutcome, failedAt, sess>>
    /\ TickFrame

\* the channel is drained: "<-done", the deferred logout, checkEmails returns
TickReturn ==
    /\ tk # <<>>
    /\ tk.pc = "consume"
    /\ tk.queue = <<>>
    /\ cmds' = Logout(cmds)
    /\ tickOutcome' = IF tk.fetchOk THEN "completed" ELSE "aborted"
    /\ failedAt' = IF tk.fetchOk THEN "none" ELSE "fetch"
    /\ sess' = "loggedout"
    /\ tk' = [tk EXCEPT !.pc = "idle"]
    /\ UNCHANGED <<seen, ids, disp>>
    /\ TickFrame

InitTicks ==
    /\ processors \in ProcLists
    /\ cancelled = FALSE
    /\ PollUnused
    /\ bemails = <<>>
    /\ bpc = "unused"
    /\ bnext = 1
    /\ wg = 0
    /\ workers = <<>>
    /\ blog = <<>>
    /\ MatchUnused
    /\ SendUnused
    /\ GenUnused
    /\ mgr = <<>>
    /\ hook = <<>>
    /\ ep = <<>>
    /\ fp = <<>>
    /\ tk = [chat |-> [i \in 1..Len(processors) |-> TelegramChatID(processors[i])],
             last |-> [m \in Msgs |-> "none"],
             pc |-> "idle", queue |-> <<>>, fetchOk |-> TRUE]

NextTicks == checkEmails \/ fetchAndProcessMessages \/ TickReturn

SpecTicks == InitTicks /\ [][NextTicks]_vars

\* the index of the processor processMessage hands message m to, 0 when no
\* processor accepts it
FirstMatch(m) ==
    LET r == processMessage(processors, parseMessage(m), 1, TRUE)
    IN IF r.invoked = <<>> THEN 0 ELSE r.invoked[1]

\* the record of message m in the tick in progress or just returned
RecordsOf(m) == { k \in 1..Len(disp) : disp[k].msg = m }

\* the tick has returned after a session, searches and a Fetch without error
TickSucceeded == TickReturned /\ tickOutcome = "completed" /\ Failed("SEARCH") = {}

\* C33: a message that a processor outside the allowlist processed
\* successfully in an earlier tick (whatever Process reported for it in
\* the ticks since) is still unread and was never handed to markAsRead,
\* and every later tick whose session, searches and fetch succeed
\* dispatches it to that processor again, Process being called once more:
\* the message is notified as often as ticks succeed
C33_UnmarkedIsNotifiedAgain ==
    \A m \in Msgs :
        (/\ tk.last[m] \in {"notified", "failed", "stored", "storeFailed"}
         /\ ~OnAllowlist(processors[FirstMatch(m)])) =>
            /\ ~seen[m]
            /\ tk.last[m] \in {"notified", "failed"}
            /\ TickSucceeded =>
                  \E k \in RecordsOf(m) :
                      /\ disp[k].invoked = <<FirstMatch(m)>>
                      /\ disp[k].ok <=> disp[k].sent = <<0>>

\* C33 witness: a message notified in an earlier tick is notified again in
\* a later one
C33_Witness ==
    /\ TickSucceeded
    /\ \E m \in Msgs :
         /\ tk.last[m] = "notified"
         /\ \E k \in RecordsOf(m) : disp[k].ok /\ ~disp[k].stored

\* the records of the tick whose Process call reported an error
FailedRecords == { k \in 1..Len(disp) : disp[k].invoked # <<>> /\ ~disp[k].ok }

\* C34: a message whose Process failed is not handed to markAsRead and is
\* left unread, and the loop goes on: a tick whose Fetch returned nil has
\* dispatched every fetched message, failures or not; the next tick that
\* fetches the failed message dispatches it again to the same processor,
\* and it is notified then if the delivery succeeds
C34_FailedProcessIsRetried ==
    /\ \A k \in FailedRecords :
         /\ ~disp[k].stored
         /\ StoresFor(disp[k].msg) = {}
         /\ ~seen[disp[k].msg]
    /\ (TickReturned /\ tickOutcome = "completed" /\ Issued("FETCH") # {}) =>
          Dispatched = ids
    /\ \A m \in Msgs :
         tk.last[m] = "failed" =>
            /\ UnreadAtTickStart(m)
            /\ (TickReturned /\ tickOutcome = "completed" /\ m \in ids) =>
                  \E k \in RecordsOf(m) :
                      /\ disp[k].invoked = <<FirstMatch(m)>>
                      /\ disp[k].ok <=> disp[k].sent = <<0>>

\* C34 witness: the first message of the tick failed and the second was
\* processed all the same, and that second message, which had failed in an
\* earlier tick, is notified now
C34_Witness ==
    /\ TickReturned
    /\ Len(disp) = 2
    /\ 1 \in FailedRecords
    /\ tk.last[disp[2].msg] = "failed"
    /\ disp[2].ok

\* the chat id of processor i does not parse as a 64-bit integer
BadChatID(i) == ~parseInt64(tk.chat[i])

\* C35: SendMessage with a chat id that does not parse makes no Send call
\* and no sleep and returns an error (with an id that parses it makes one
\* call at least), so a processor configured with such an id fails Process
\* on every message it is handed, none of its messages is ever stored or
\* read, and each of them is dispatched and fails again in every tick whose
\* session, searches and fetch succeed
C35_UnparsableChatIDFailsEveryTick ==
    /\ \A k \in 1..Len(disp) :
         disp[k].invoked # <<>> =>
            IF BadChatID(disp[k].invoked[1])
            THEN /\ disp[k].sent = <<>>
                 /\ disp[k].slept = <<>>
                 /\ ~disp[k].ok
                 /\ ~disp[k].stored
            ELSE Len(disp[k].sent) >= 1
    /\ \A m \in Msgs :
         (FirstMatch(m) # 0 /\ BadChatID(FirstMatch(m))) =>
            /\ ~seen[m]
            /\ StoresFor(m) = {}
            /\ tk.last[m] \in {"none", "failed"}
            /\ TickSucceeded => \E k \in RecordsOf(m) : k \in FailedRecords

\* C35 witness: a message that failed in an earlier tick for a processor
\* with an unparsable chat id fails again, no Send call made
C35_Witness ==
    /\ TickSucceeded
    /\ \E m \in Msgs :
         /\ tk.last[m] = "failed"
         /\ BadChatID(FirstMatch(m))
         /\ OnAllowlist(processors[FirstMatch(m)])
         /\ \E k \in RecordsOf(m) : disp[k].sent = <<>> /\ ~disp[k].ok

\* within the tick: a failed STORE leaves the notification as it was sent
\* and the message unread, it never aborts the tick, and a tick whose Fetch
\* returned nil has processed every fetched message
StoreFailureIsLocal ==
    /\ \A i \in Failed("STORE") :
         /\ ~seen[cmds[i].arg]
         /\ \E k \in RecordsOf(cmds[i].arg) :
               disp[k].ok /\ disp[k].stored /\ disp[k].sent = <<0>>
    /\ TickReturned => failedAt \in {"none", "connect", "login", "select", "search", "fetch"}
    /\ (TickReturned /\ tickOutcome = "completed") => \A m \in ids : RecordsOf(m) # {}

\* C36 (as claimed): a failed flag store does not abort the tick nor undo
\* the notification, the message stays unread, and the next tick
\* dispatches it and notifies it again
C36_StoreFailureRenotifiesNextTick ==
    /\ StoreFailureIsLocal
    /\ \A m \in Msgs :
         (tk.last[m] = "storeFailed" /\ TickReturned) =>
            \E k \in RecordsOf(m) : disp[k].ok

\* C36 (amended): a failed flag store does not abort the tick nor undo the
\* notification and the message stays unread; the next tick whose session,
\* searches and fetch succeed dispatches it to the same processor again,
\* and it is notified again exactly when that delivery succeeds
C36_StoreFailureLeavesUnread ==
    /\ StoreFailureIsLocal
    /\ \A m \in Msgs :
         tk.last[m] = "storeFailed" =>
            /\ UnreadAtTickStart(m)
            /\ TickSucceeded =>
                  \E k \in RecordsOf(m) :
                      /\ disp[k].invoked = <<FirstMatch(m)>>
                      /\ disp[k].ok <=> disp[k].sent = <<0>>

\* C36 witness: the STORE of the first message failed and the second
\* message was processed after it; the first message, whose STORE had
\* failed in an earlier tick too, was notified again in this one
C36_Witness ==
    /\ TickSucceeded
    /\ Len(disp) = 2
    /\ Failed("STORE") # {}
    /\ \A i \in Failed("STORE") : cmds[i].arg = disp[1].msg
    /\ disp[2].invoked # <<>>
    /\ tk.last[disp[1].msg] = "storeFailed"

----------------------------------------------------------------------------
(* Termination of fetchAndProcessMessages *)

\* the goroutines of the call are scheduled and processMessage returns;
\* nothing is assumed about when Fetch sends or returns
FetchFairness ==
    /\ WF_vars(FpResult)
    /\ WF_vars(FpBegin)
    /\ WF_vars(FpEnd)
    /\ WF_vars(FpLoopEnd)
    /\ WF_vars(FpReturn)

FairFetch == SpecFetch /\ FetchFairness

\* the call and its goroutine are both over
FetchOver == fp.pc = "returned" /\ fp.prod = "exited"

\* no send of Fetch ever waits for the consumer, the send on done never
\* waits, the result is read only after the channel was closed and every
\* message sent was received and processed, and some step is possible
\* until the call and its goroutine are over
FetchNeverBlocks ==
    /\ Len(fp.ch) <= fp.cap
    /\ (fp.prod = "running" /\ fp.pending # {}) => Len(fp.ch) < fp.cap
    /\ fp.prod = "closed" => fp.done = "empty"
    /\ fp.pc \in {"waitDone", "returned"} =>
          /\ fp.prod # "running"
          /\ fp.ch = <<>>
          /\ Len(fp.ended) = Len(fp.sent)
    /\ ~FetchOver => ENABLED NextFetch

\* C37: fetchAndProcessMessages cannot deadlock and terminates once Fetch
\* has returned: the messages channel has room for every requested
\* identifier, so Fetch never waits for the consumer; done has room for the
\* one result, so the goroutine always exits; and the consumer reads the
\* result only after the messages channel was closed and drained
C37_FetchTerminates ==
    /\ []FetchNeverBlocks
    /\ (fp.prod # "running") ~> FetchOver

\* C37 witness: Fetch filled the channel to its capacity and its goroutine
\* exited before the consumer received anything
C37_Witness ==
    /\ fp.cap = NumMsgs
    /\ Len(fp.ch) = fp.cap
    /\ fp.prod = "exited"
    /\ fp.started = <<>>

----------------------------------------------------------------------------
(* The end of StartMonitoring *)

\* StartMonitoring with a single processor
InitMonitor == InitPoll /\ Len(processors) = 1

\* the select takes a case that is ready again and again: when the context
\* is done and ticks keep arriving, the Done case is taken in the end
SelectFairness == Fairness /\ SF_vars(SelectDone)

FairMonitor == InitMonitor /\ [][Next]_vars /\ SelectFairness

\* C38: once the context is cancelled StartMonitoring returns in the end,
\* every tick in progress terminating and the select being fair; it returns
\* between ticks only, and after its return no tick is started, no command
\* is issued on a session and no message is dispatched
C38_CancelEndsMonitoring ==
    /\ cancelled ~> (loop = "returned")
    /\ [](loop = "returned" => cancelled /\ pc = "none" /\ running = 0)
    /\ [][loop = "returned" =>
            /\ loop' = "returned"
            /\ pc' = "none"
            /\ running' = 0
            /\ cmds' = cmds
            /\ disp' = disp
            /\ seen' = seen
            /\ sess' = sess]_vars

\* C38 witness: StartMonitoring has returned after a tick that dispatched a
\* message, with a timer tick left in ticker.C that is never taken
C38_Witness ==
    /\ loop = "returned"
    /\ tickerC
    /\ tickOutcome = "completed"
    /\ disp # <<>>

----------------------------------------------------------------------------
(* handlePostProcessing on its own: processor mP has processed message mM
   and Process returned nil; mResult is whether markAsRead is called *)
PERPLEXITY == <<"P", "E", "R", "P", "L", "E", "X", "I", "T", "Y">>

\* spellings of the two allowlisted names
AllowlistSpellings == {perplexity, PERPLEXITY, cloudflare, Cloudflare}

\* the names GetName may return, the empty one included
MarkNames == AllowlistSpellings \cup {github, <<"p", "e", "r", "p", "l", "e", "x">>, <<>>}

\* the processors of the pool under each of these names, and without GetName
MarkProcessors ==
    { Processor(n, TRUE, p.EmailFrom, p.EmailSubject) : n \in MarkNames, p \in ProcessorPool }
        \cup { Processor(<<>>, FALSE, p.EmailFrom, p.EmailSubject) : p \in ProcessorPool }

InitMark ==
    /\ processors = <<>>
    /\ cancelled = FALSE
    /\ PollUnused
    /\ bemails = <<>>
    /\ bpc = "unused"
    /\ bnext = 1
    /\ wg = 0
    /\ workers = <<>>
    /\ blog = <<>>
    /\ mP \in MarkProcessors
    /\ mM \in { parseMessage(m) : m \in Msgs }
    /\ mResult = FALSE
    /\ mpc = "processed"
    /\ SendUnused
    /\ GenUnused
    /\ ExtUnused

\* handlePostProcessing, the STORE of markAsRead and its answer included
PostProcess ==
    /\ mpc = "processed"
    /\ mResult' = handlePostProcessing(mP)
    /\ IF handlePostProcessing(mP)
       THEN \E storeOk \in BOOLEAN :
              /\ cmds' = Append(cmds, Cmd("STORE", storeOk, mM.ID))
              /\ seen' = IF storeOk THEN markAsRead(seen, mM.ID) ELSE seen
       ELSE UNCHANGED <<cmds, seen>>
    /\ mpc' = "posted"
    /\ UNCHANGED <<cancelled, tickerC, loop, running, pc, sess, searchIdx, ids, pending,
                   prod, messages, done, disp, tickOutcome, failedAt, cancelAtEntry>>
    /\ UNCHANGED <<processors, batchVars, mP, mM, sendVars, genVars, extVars>>

NextMark == PostProcess

SpecMark == InitMark /\ [][NextMark]_vars

\* C39: mark-as-read is decided on the lower-cased name: markAsRead is
\* called iff the processor exposes a name that lower-cases to "perplexity"
\* or "cloudflare", a processor named "Cloudflare" or "PERPLEXITY" is
\* treated exactly as the same processor under the lower-cased name, and a
\* processor that exposes no name is never marked read
C39_AllowlistOnLowerCasedName ==
    mpc = "posted" =>
        /\ mResult <=> (mP.hasName /\ ToLower(mP.name) \in {perplexity, cloudflare})
        /\ mP.hasName => mResult = handlePostProcessing([mP EXCEPT !.name = ToLower(@)])
        /\ (mP.hasName /\ mP.name \in AllowlistSpellings) => mResult
        /\ ~mP.hasName => ~mResult
        /\ mResult <=> StoresFor(mM.ID) # {}
        /\ ~mResult => cmds = <<>> /\ ~seen[mM.ID]

\* C39 witness: the message of a processor configured as "PERPLEXITY" was
\* marked read
C39_Witness ==
    /\ mpc = "posted"
    /\ mP.hasName
    /\ mP.name = PERPLEXITY
    /\ seen[mM.ID]

====
